---- MODULE Spec2Model ----
(***************************************************************************)
(* Resource / deployment orchestration engine of aws-gcp-provisioner:      *)
(* the request handlers (resourceService, deploymentService), the job      *)
(* tables, the three bee-queue queues and the worker handlers of           *)
(* src/queue/worker.js.  Every await of a handler is one step, so that     *)
(* requests and the workers of the three queues interleave as they do in   *)
(* the running system.                                                     *)
(***************************************************************************)
EXTENDS Integers, Sequences, FiniteSets, TLC

\* ---------------------------------------------------------------- bounds
MaxResources == 3
MaxDeployments == 1
MaxJobs == 2
MaxFaults == 1
MaxCrashes == 1
MaxKeys == 1
MaxTemplates == 1
MaxCalls == 2
maxWaitTime == 3
operationPollInterval == 1
MaxLegacyDeployments == 2
MaxRequests == 2

\* ------------------------------------------------------------- constants
NULL == "null"
UNDEF == "undefined"

QueueNames == {"CREATE", "UPDATE", "DELETE"}
OutputKeys == 1..MaxKeys
PrimaryRegions == {"us-east-1"}
FailoverRegions == {"us-west-2"}
ValidParams == {"p1", "p2"}
InvalidParams == {"bad"}
Standalone == <<"resource", 0>>

InFlight == {"CREATING", "UPDATING", "DELETING"}
Terminal == {"ACTIVE", "DELETED", "FAILED"}

VARIABLES
    resources,      \* prisma.resource table, index = id
    deployments,    \* prisma.deployment table, index = id
    jobs,           \* prisma.job table, index = id
    deploymentJobs, \* prisma.deploymentJob table, index = id
    queue,          \* messages saved to the bee-queue queues, index = id
    worker,         \* per queue: the handler invocation in progress
    req,            \* the service call in progress
    infra,          \* workspaces <<deployment, region>> with applied infrastructure
    faults,         \* store / queue failures still to come
    crashes,        \* abandoned handler invocations so far
    templates,      \* prisma.template table, index = id
    treq,           \* the templateService call in progress
    route,          \* the region mapping of a deployment route in progress
    validation,     \* the validateParameters call in progress
    wait,           \* a GCP service call and its waitForZoneOperation
    legacy          \* the legacy Terraform API: deployments, logs, process state

vars == <<resources, deployments, jobs, deploymentJobs, queue, worker, req,
          infra, faults, crashes, templates, treq, route, validation,
          wait, legacy>>

\* ----------------------------------------------------------- store helpers
\* getQueueByJobType: FAILOVER has no queue of its own
getQueueByJobType(jobType) ==
    CASE jobType = "CREATE" -> "CREATE"
      [] jobType = "UPDATE" -> "UPDATE"
      [] jobType = "DELETE" -> "DELETE"

\* jobService.updateJobStatus / deploymentJobService.updateDeploymentJobStatus:
\* the status is written unconditionally; the error text only when one is given
updateJobStatus(table, jobId, status, error) ==
    [table EXCEPT ![jobId].status = status,
                  ![jobId].error = IF error # NULL THEN error ELSE @]

updateDeploymentJobStatus(table, jobId, status, error) ==
    [table EXCEPT ![jobId].status = status,
                  ![jobId].error = IF error # NULL THEN error ELSE @]

\* worker.js updateResourceStatus / updateDeploymentStatus
updateResourceStatus(table, resourceId, status) ==
    [table EXCEPT ![resourceId].status = status]

updateDeploymentStatus(table, deploymentId, status) ==
    [table EXCEPT ![deploymentId].status = status]

\* enum Provider of the schema, and the values of the free-text column type
\* that the requests of the model send
Providers == {"AWS", "GCP"}
ResourceTypes == {"EC2", "S3", "ComputeEngine", "Disk", "TerraformResource"}
Kinds == Providers \X ResourceTypes

\* the (provider, type) a request sends where the kind does not matter
DefaultKind == <<"AWS", "EC2">>

\* template.provider of the templates the deployments are created from
TemplateProvider == "AWS"

\* the record a request handler creates for a resource
newResource(kind) ==
    [status |-> "PENDING", resourceId |-> NULL, deploymentId |-> 0,
     name |-> Standalone, region |-> NULL, metadata |-> NULL,
     provider |-> kind[1], type |-> kind[2]]

\* providerFactory.getProviderService
getProviderService(provider) ==
    CASE provider = "AWS" -> "awsServiceFactory"
      [] provider = "GCP" -> "gcpServiceFactory"
      [] OTHER -> "Unsupported provider"

\* awsServiceFactory.getService whose default case returns the EC2 service
awsGetServiceDefaultEC2(resourceType) ==
    CASE resourceType = "EC2" -> "ec2Service"
      [] resourceType = "S3" -> "s3Service"
      [] OTHER -> "ec2Service"

\* awsServiceFactory.getService
awsGetService(resourceType) ==
    CASE resourceType = "EC2" -> "ec2Service"
      [] resourceType = "S3" -> "s3Service"
      [] OTHER -> "Unsupported AWS resource type"

\* gcpServiceFactory.getService
gcpGetService(resourceType) ==
    CASE resourceType = "ComputeEngine" -> "computeEngineService"
      [] resourceType = "Disk" -> "diskService"
      [] OTHER -> "Unsupported GCP resource type"

\* the errors the two factories throw
Unsupported ==
    {"Unsupported provider", "Unsupported AWS resource type",
     "Unsupported GCP resource type"}

\* providerFactory.create/update/deleteResource up to the call of the service:
\* the service that will be called, or the error thrown before any call
getService(resource) ==
    LET providerService == getProviderService(resource.provider) IN
    IF providerService = "awsServiceFactory" THEN awsGetService(resource.type)
    ELSE IF providerService = "gcpServiceFactory" THEN gcpGetService(resource.type)
    ELSE providerService

\* the record a request handler creates for a deployment
newDeployment(name, parameters, failoverRegion, templateId) ==
    [status |-> "PENDING", name |-> name, parameters |-> parameters,
     primaryRegion |-> CHOOSE r \in PrimaryRegions : TRUE,
     failoverRegion |-> failoverRegion, templateId |-> templateId]

\* the columns of a template row that updateTemplate can write
TemplateFields ==
    {"name", "description", "version", "provider", "gitRepo", "gitBranch",
     "modulePath", "parameters", "resources"}

\* the columns updateTemplate writes for a template that has deployments
SafeFields == {"description", "version"}

\* the row createTemplate stores
newTemplate(name) ==
    [f \in TemplateFields |-> IF f = "name" THEN name ELSE "v1"]

\* what the table holds at the id of a row that prisma.template.delete removed
NoTemplate == [f \in TemplateFields |-> NULL]

\* whether a template row with this id is stored
storedTemplate(table, id) == id \in 1..Len(table) /\ table[id] # NoTemplate

\* Template_name_key: another stored template has the name
nameTaken(table, id, name) ==
    \E t \in 1..Len(table) : t # id /\ table[t] # NoTemplate /\ table[t].name = name

\* hasDeployments of a store that never finds a referencing row
hasDeploymentsNever(table, id) ==
    \E d \in 1..Len(table) : table[d].templateId = id /\ table[d].templateId # id

\* the deployments relation of a template (Deployment_templateId_fkey)
hasDeployments(table, id) ==
    \E d \in 1..Len(table) : table[d].templateId = id

\* prisma.template.update: a column whose value is undefined is left alone
applyUpdates(template, updates, fields) ==
    [f \in TemplateFields |->
        IF f \in fields /\ updates[f] # UNDEF THEN updates[f] ELSE template[f]]

\* outputResource with the entry status of a request handler's record
outputResourcePending(deploymentId, name, key, hasId, region) ==
    [status |-> "PENDING", resourceId |-> IF hasId THEN "ext" ELSE NULL,
     deploymentId |-> deploymentId, name |-> <<name, key>>, region |-> region,
     metadata |-> "output", provider |-> TemplateProvider,
     type |-> "TerraformResource"]

\* the states of the provider's entity behind a resource, as a service finds
\* it: in its running / ready state, in another state, or gone
EntityStates == {"running", "stopped", "absent"}

\* the entity as the handlers themselves leave it
EntityRunning == {"running"}

\* the states of the entity a service can meet: a bucket is there or gone
entitiesOf(service, entities) ==
    IF service = "s3Service" THEN entities \ {"stopped"} ELSE entities

\* what a call of a service method ends with: whether it reached the provider,
\* whether it issued a mutating provider call, and the error it threw (NULL
\* when it returned)
returned == [reached |-> TRUE, mutated |-> TRUE, error |-> NULL]
refused(text) == [reached |-> FALSE, mutated |-> FALSE, error |-> text]
thrown(text) == [reached |-> TRUE, mutated |-> FALSE, error |-> text]
rejected(text) == [reached |-> TRUE, mutated |-> TRUE, error |-> text]

\* createResource of the four services: the creating call, which the
\* provider runs or rejects
createEntity == {returned, rejected("provider")}

\* ec2Service.updateResource: the id, DescribeInstances, the state check, then
\* ModifyInstanceAttribute
ec2UpdateResource(resource, entity) ==
    IF resource.resourceId = NULL THEN {refused("precondition")}
    ELSE IF entity = "absent" THEN {thrown("not found")}
    ELSE IF entity # "running" THEN {thrown("precondition")}
    ELSE {returned, rejected("provider")}

\* s3Service.updateResource: PutBucketTagging with no look at the bucket
s3UpdateResource(resource, entity) ==
    IF entity = "absent" THEN {rejected("not found")}
    ELSE {returned, rejected("provider")}

\* computeEngineService.updateResource: the id, instancesClient.get, the
\* status check, then setMetadata
computeEngineUpdateResource(resource, entity) ==
    IF resource.resourceId = NULL THEN {refused("precondition")}
    ELSE IF entity = "absent" THEN {thrown("not found")}
    ELSE IF entity # "running" THEN {thrown("precondition")}
    ELSE {returned, rejected("provider")}

\* diskService.updateResource: the id, disksClient.get, then resize and
\* setLabels whatever the status of the disk
diskUpdateResource(resource, entity) ==
    IF resource.resourceId = NULL THEN {refused("precondition")}
    ELSE IF entity = "absent" THEN {thrown("not found")}
    ELSE {returned, rejected("provider")}

\* deleteResource of the four services: the id (the bucket name of S3 falls
\* back to the resource name), then the deleting call, whose not-found error
\* is rethrown
deleteEntity(service, resource, entity) ==
    IF service # "s3Service" /\ resource.resourceId = NULL
    THEN {refused("precondition")}
    ELSE IF entity = "absent" THEN {rejected("not found")}
    ELSE {returned, rejected("provider")}

\* the method of a service that the handler of queue q calls
callService(q, service, resource, entity) ==
    CASE q = "CREATE" -> createEntity
      [] q = "DELETE" -> deleteEntity(service, resource, entity)
      [] q = "UPDATE" /\ service = "ec2Service" -> ec2UpdateResource(resource, entity)
      [] q = "UPDATE" /\ service = "s3Service" -> s3UpdateResource(resource, entity)
      [] q = "UPDATE" /\ service = "computeEngineService" ->
            computeEngineUpdateResource(resource, entity)
      [] q = "UPDATE" /\ service = "diskService" -> diskUpdateResource(resource, entity)

\* the record a worker creates for one key of the IaC outputs; its type is the
\* type of the output value or 'TerraformResource', never a provisioner's type
outputResource(deploymentId, name, key, hasId, region) ==
    [status |-> "ACTIVE", resourceId |-> IF hasId THEN "ext" ELSE NULL,
     deploymentId |-> deploymentId, name |-> <<name, key>>, region |-> region,
     metadata |-> "output", provider |-> TemplateProvider,
     type |-> "TerraformResource"]

newJob(resourceId, type) ==
    [resourceId |-> resourceId, type |-> type, status |-> "PENDING", error |-> NULL]

newDeploymentJob(deploymentId, type) ==
    [deploymentId |-> deploymentId, type |-> type, status |-> "PENDING", error |-> NULL]

\* validateParameters that accepts every document
validateParametersAlways(parameters) == parameters = parameters

\* templateService.validateParameters, reduced to its verdict
validateParameters(parameters) == parameters \in ValidParams

\* failoverAllowed without the check of the deployment status
failoverAllowedAnyStatus(deployment) ==
    deployment.failoverRegion # NULL

\* the precondition of initiateFailover on the deployment it has read
failoverAllowed(deployment) ==
    /\ deployment.failoverRegion # NULL
    /\ deployment.status = "ACTIVE"

\* notDeleted that lets an entity under deletion through
notDeletedOnly(status) == status # "DELETED"

\* the status check shared by update and delete requests
notDeleted(status) == status \notin {"DELETED", "DELETING"}

\* ------------------------------------------------------------------ Init
\* no region mapping in progress
IdleRoute ==
    [pc |-> "idle", leg |-> 0, origin |-> NULL, newRegion |-> NULL,
     newProvider |-> NULL, mappedRegion |-> NULL, error |-> NULL]

\* no GCP service call in progress
IdleWait ==
    [pc |-> "idle", site |-> NULL, remote |-> "RUNNING", operation |-> NULL,
     elapsed |-> 0, late |-> 0, error |-> NULL]

\* the legacy Terraform API before any request
IdleLegacy ==
    [version |-> 1, rows |-> <<>>, logs |-> <<>>, ops |-> <<>>,
     env |-> [p \in Providers |-> NULL],
     tfvars |-> [w \in (1..MaxLegacyDeployments) \X Providers |-> NULL]]

\* no validateParameters call in progress
IdleValidation ==
    [pc |-> "idle", schema |-> NULL, parameters |-> NULL,
     result |-> [valid |-> TRUE, errors |-> <<>>], returns |-> <<>>]

IdleReq ==
    [op |-> "none", pc |-> "idle", id |-> 0, kind |-> "none", type |-> "none",
     status |-> NULL, name |-> <<>>, failoverRegion |-> NULL,
     parameters |-> NULL, config |-> FALSE, jobId |-> 0, error |-> NULL,
     templateId |-> 0]

IdleTreq ==
    [op |-> "none", pc |-> "idle", id |-> 0, updates |-> NULL,
     hasDeployments |-> FALSE, error |-> NULL]

\* the template the deployments of the orchestration runs are created from
TemplateNames == {"t1"}
StoredTemplates == [t \in 1..MaxTemplates |-> newTemplate("t1")]

IdleWorker ==
    [pc |-> "idle", msg |-> 0, region |-> NULL, name |-> NULL,
     parameters |-> NULL, snap |-> {}, outputs |-> {}, todo |-> {},
     error |-> NULL, service |-> NULL, entity |-> NULL, mutated |-> FALSE]

Init ==
    /\ resources = <<>>
    /\ deployments = <<>>
    /\ jobs = <<>>
    /\ deploymentJobs = <<>>
    /\ queue = <<>>
    /\ worker = [q \in QueueNames |-> IdleWorker]
    /\ req = IdleReq
    /\ infra = {}
    /\ faults = 0
    /\ crashes = 0
    /\ templates = StoredTemplates
    /\ treq = IdleTreq
    /\ wait = IdleWait
    /\ legacy = IdleLegacy
    /\ route = IdleRoute
    /\ validation = IdleValidation

\* the same system with a store and a queue that can fail
InitFaults ==
    /\ resources = <<>>
    /\ deployments = <<>>
    /\ jobs = <<>>
    /\ deploymentJobs = <<>>
    /\ queue = <<>>
    /\ worker = [q \in QueueNames |-> IdleWorker]
    /\ req = IdleReq
    /\ infra = {}
    /\ faults = MaxFaults
    /\ crashes = 0
    /\ templates = StoredTemplates
    /\ treq = IdleTreq
    /\ wait = IdleWait
    /\ legacy = IdleLegacy
    /\ route = IdleRoute
    /\ validation = IdleValidation

\* the system before any template has been created
InitTemplates ==
    /\ resources = <<>>
    /\ deployments = <<>>
    /\ jobs = <<>>
    /\ deploymentJobs = <<>>
    /\ queue = <<>>
    /\ worker = [q \in QueueNames |-> IdleWorker]
    /\ req = IdleReq
    /\ infra = {}
    /\ faults = 0
    /\ crashes = 0
    /\ templates = <<>>
    /\ treq = IdleTreq
    /\ wait = IdleWait
    /\ legacy = IdleLegacy
    /\ route = IdleRoute
    /\ validation = IdleValidation

\* a store write or a queue save either takes effect or throws
Outcomes == {"ok", "throws"}
MayThrow(outcome) == outcome = "throws" => faults > 0
Count(outcome) == faults' = IF outcome = "throws" THEN faults - 1 ELSE faults

JobBudget == Len(jobs) + Len(deploymentJobs) < MaxJobs

\* ------------------------------------------------------ request handlers
\* inputs of the requests
Names == {"app"}
NoRename == {UNDEF}
NewNames == {UNDEF, "app2"}
NewResourceNames == {UNDEF, "renamed"}
NewFailover == {UNDEF, NULL} \cup FailoverRegions
NewParameters == {UNDEF, "p2", "bad"}

\* the queue message a request saves for its job
message(r) ==
    [queue |-> getQueueByJobType(IF r.type = "FAILOVER" THEN "CREATE" ELSE r.type),
     isDeployment |-> r.kind = "deployment",
     entityId |-> r.id, jobId |-> r.jobId,
     isFailover |-> r.type = "FAILOVER",
     targetRegion |-> IF r.type = "FAILOVER" THEN r.failoverRegion ELSE UNDEF,
     updates |-> IF r.type = "UPDATE" THEN r.parameters ELSE UNDEF,
     state |-> "waiting"]

\* resourceService.createResource up to prisma.resource.create
createResourceWith(kinds) ==
    /\ req.pc = "idle" /\ JobBudget /\ Len(resources) < MaxResources
    /\ \E outcome \in Outcomes, kind \in kinds :
        /\ MayThrow(outcome) /\ Count(outcome)
        /\ IF outcome = "ok"
           THEN /\ resources' = Append(resources, newResource(kind))
                /\ req' = [IdleReq EXCEPT !.op = "createResource", !.pc = "create_job",
                              !.kind = "resource", !.type = "CREATE",
                              !.id = Len(resources) + 1]
           ELSE /\ req' = [IdleReq EXCEPT !.op = "createResource", !.pc = "err",
                              !.kind = "resource", !.error = "store"]
                /\ UNCHANGED resources
    /\ UNCHANGED <<wait, legacy, route, validation, templates, treq, deployments, jobs, deploymentJobs, queue, worker, infra, crashes>>

createResource == createResourceWith({DefaultKind})

\* createResource of a client that sends every provider and type
createResourceOfAnyKind == createResourceWith(Kinds)

\* resourceService.updateResource: findUnique and the two checks
updateResourceWith(names) ==
    /\ req.pc = "idle"
    /\ \E id \in 1..MaxResources, config \in BOOLEAN, name \in names :
        /\ config => JobBudget
        /\ LET r == [IdleReq EXCEPT !.op = "updateResource", !.kind = "resource",
                         !.type = "UPDATE", !.id = id, !.config = config,
                         !.parameters = "config"] IN
           IF id > Len(resources)
           THEN req' = [r EXCEPT !.pc = "err", !.error = "not found"]
           ELSE IF ~notDeleted(resources[id].status)
           THEN req' = [r EXCEPT !.pc = "err", !.error = "state"]
           ELSE req' = [r EXCEPT !.pc = "update_info", !.status = resources[id].status,
                           !.name = IF name # UNDEF THEN <<name, 0>>
                                    ELSE resources[id].name]
    /\ UNCHANGED <<wait, legacy, route, validation, templates, treq, resources, deployments, jobs, deploymentJobs, queue, worker,
                   infra, faults, crashes>>

updateResource == updateResourceWith(NoRename)

updateResourceRenaming == updateResourceWith(NewResourceNames)

\* resourceService.updateResource: the update of name and description
updateResourceInfo ==
    /\ req.pc = "update_info" /\ req.op = "updateResource"
    /\ \E outcome \in Outcomes :
        /\ MayThrow(outcome) /\ Count(outcome)
        /\ IF outcome = "ok"
           THEN /\ resources' = [resources EXCEPT ![req.id].name = req.name]
                /\ req' = [req EXCEPT !.pc = IF req.config THEN "create_job" ELSE "ok"]
           ELSE /\ req' = [req EXCEPT !.pc = "err", !.error = "store"]
                /\ UNCHANGED resources
    /\ UNCHANGED <<wait, legacy, route, validation, templates, treq, deployments, jobs, deploymentJobs, queue, worker, infra, crashes>>

\* resourceService.deleteResource: findUnique and the two checks
deleteResource ==
    /\ req.pc = "idle" /\ JobBudget
    /\ \E id \in 1..MaxResources :
        LET r == [IdleReq EXCEPT !.op = "deleteResource", !.kind = "resource",
                      !.type = "DELETE", !.id = id] IN
        IF id > Len(resources)
        THEN req' = [r EXCEPT !.pc = "err", !.error = "not found"]
        ELSE IF ~notDeleted(resources[id].status)
        THEN req' = [r EXCEPT !.pc = "err", !.error = "state"]
        ELSE req' = [r EXCEPT !.pc = "create_job", !.status = resources[id].status]
    /\ UNCHANGED <<wait, legacy, route, validation, templates, treq, resources, deployments, jobs, deploymentJobs, queue, worker,
                   infra, faults, crashes>>

\* deploymentService.createDeployment: getTemplateById and validateParameters
createDeployment ==
    /\ req.pc = "idle" /\ JobBudget /\ Len(deployments) < MaxDeployments
    /\ \E name \in Names, parameters \in {"p1", "bad"},
          failoverRegion \in {NULL} \cup FailoverRegions,
          templateId \in 1..MaxTemplates :
        LET r == [IdleReq EXCEPT !.op = "createDeployment", !.kind = "deployment",
                      !.type = "CREATE", !.name = <<name>>, !.parameters = parameters,
                      !.failoverRegion = failoverRegion,
                      !.templateId = templateId] IN
        IF ~storedTemplate(templates, templateId)
        THEN req' = [r EXCEPT !.pc = "err", !.error = "not found"]
        ELSE IF ~validateParameters(parameters)
        THEN req' = [r EXCEPT !.pc = "err", !.error = "invalid"]
        ELSE req' = [r EXCEPT !.pc = "create_entity"]
    /\ UNCHANGED <<wait, legacy, route, validation, templates, treq, resources, deployments, jobs, deploymentJobs, queue, worker,
                   infra, faults, crashes>>

\* deploymentService.createDeployment: prisma.deployment.create, which the
\* store rejects when the template row is gone (Deployment_templateId_fkey)
createDeploymentRecord ==
    /\ req.pc = "create_entity" /\ req.op = "createDeployment"
    /\ \E outcome \in Outcomes :
        /\ MayThrow(outcome) /\ Count(outcome)
        /\ IF outcome = "throws"
           THEN /\ req' = [req EXCEPT !.pc = "err", !.error = "store"]
                /\ UNCHANGED deployments
           ELSE IF ~storedTemplate(templates, req.templateId)
           THEN /\ req' = [req EXCEPT !.pc = "err", !.error = "foreign key"]
                /\ UNCHANGED deployments
           ELSE /\ deployments' = Append(deployments,
                       newDeployment(req.name[1], req.parameters, req.failoverRegion,
                                     req.templateId))
                /\ req' = [req EXCEPT !.pc = "create_job", !.id = Len(deployments) + 1]
    /\ UNCHANGED <<wait, legacy, route, validation, templates, treq, resources, jobs, deploymentJobs, queue, worker, infra, crashes>>

\* deploymentService.updateDeployment: findUnique and the two checks
updateDeploymentWith(names) ==
    /\ req.pc = "idle"
    /\ \E id \in 1..MaxDeployments, name \in names, failoverRegion \in NewFailover,
          parameters \in NewParameters :
        /\ parameters # UNDEF => JobBudget
        /\ LET r == [IdleReq EXCEPT !.op = "updateDeployment", !.kind = "deployment",
                         !.type = "UPDATE", !.id = id, !.parameters = parameters] IN
           IF id > Len(deployments)
           THEN req' = [r EXCEPT !.pc = "err", !.error = "not found"]
           ELSE IF ~notDeleted(deployments[id].status)
           THEN req' = [r EXCEPT !.pc = "err", !.error = "state"]
           ELSE req' = [r EXCEPT !.pc = "update_info", !.status = deployments[id].status,
                           !.name = <<IF name # UNDEF THEN name ELSE deployments[id].name>>,
                           !.failoverRegion = IF failoverRegion # UNDEF THEN failoverRegion
                                              ELSE deployments[id].failoverRegion]
    /\ UNCHANGED <<wait, legacy, route, validation, templates, treq, resources, deployments, jobs, deploymentJobs, queue, worker,
                   infra, faults, crashes>>

updateDeployment == updateDeploymentWith(NoRename)

updateDeploymentRenaming == updateDeploymentWith(NewNames)

\* deploymentService.updateDeployment: the update of name, description and
\* failoverRegion, then the validation of updates.parameters
updateDeploymentInfo ==
    /\ req.pc = "update_info" /\ req.op = "updateDeployment"
    /\ \E outcome \in Outcomes :
        /\ MayThrow(outcome) /\ Count(outcome)
        /\ IF outcome = "ok"
           THEN /\ deployments' = [deployments EXCEPT ![req.id].name = req.name[1],
                                       ![req.id].failoverRegion = req.failoverRegion]
                /\ req' = IF req.parameters = UNDEF THEN [req EXCEPT !.pc = "ok"]
                          ELSE IF ~validateParameters(req.parameters)
                          THEN [req EXCEPT !.pc = "err", !.error = "invalid"]
                          ELSE [req EXCEPT !.pc = "update_params"]
           ELSE /\ req' = [req EXCEPT !.pc = "err", !.error = "store"]
                /\ UNCHANGED deployments
    /\ UNCHANGED <<wait, legacy, route, validation, templates, treq, resources, jobs, deploymentJobs, queue, worker, infra, crashes>>

\* deploymentService.updateDeployment: parameters and status PENDING
updateDeploymentParameters ==
    /\ req.pc = "update_params" /\ req.op = "updateDeployment"
    /\ \E outcome \in Outcomes :
        /\ MayThrow(outcome) /\ Count(outcome)
        /\ IF outcome = "ok"
           THEN /\ deployments' = [deployments EXCEPT ![req.id].parameters = req.parameters,
                                       ![req.id].status = "PENDING"]
                /\ req' = [req EXCEPT !.pc = "create_job"]
           ELSE /\ req' = [req EXCEPT !.pc = "err", !.error = "store"]
                /\ UNCHANGED deployments
    /\ UNCHANGED <<wait, legacy, route, validation, templates, treq, resources, jobs, deploymentJobs, queue, worker, infra, crashes>>

\* deploymentService.deleteDeployment: findUnique and the two checks
deleteDeploymentWithin(budget) ==
    /\ req.pc = "idle" /\ budget
    /\ \E id \in 1..MaxDeployments :
        LET r == [IdleReq EXCEPT !.op = "deleteDeployment", !.kind = "deployment",
                      !.type = "DELETE", !.id = id] IN
        IF id > Len(deployments)
        THEN req' = [r EXCEPT !.pc = "err", !.error = "not found"]
        ELSE IF ~notDeleted(deployments[id].status)
        THEN req' = [r EXCEPT !.pc = "err", !.error = "state"]
        ELSE req' = [r EXCEPT !.pc = "update_status", !.status = deployments[id].status]
    /\ UNCHANGED <<wait, legacy, route, validation, templates, treq, resources, deployments, jobs, deploymentJobs, queue, worker,
                   infra, faults, crashes>>

deleteDeployment == deleteDeploymentWithin(JobBudget)

\* deleteDeployment of a deployment that already has the job of its creation
deleteDeploymentLater == deleteDeploymentWithin(Len(deploymentJobs) < MaxJobs + 1)

\* deploymentService.deleteDeployment: status DELETING
deleteDeploymentStatus ==
    /\ req.pc = "update_status" /\ req.op = "deleteDeployment"
    /\ \E outcome \in Outcomes :
        /\ MayThrow(outcome) /\ Count(outcome)
        /\ IF outcome = "ok"
           THEN /\ deployments' = updateDeploymentStatus(deployments, req.id, "DELETING")
                /\ req' = [req EXCEPT !.pc = "create_job"]
           ELSE /\ req' = [req EXCEPT !.pc = "err", !.error = "store"]
                /\ UNCHANGED deployments
    /\ UNCHANGED <<wait, legacy, route, validation, templates, treq, resources, jobs, deploymentJobs, queue, worker, infra, crashes>>

\* deploymentService.initiateFailover: findUnique and the three checks
initiateFailover ==
    /\ req.pc = "idle" /\ JobBudget
    /\ \E id \in 1..MaxDeployments :
        LET r == [IdleReq EXCEPT !.op = "initiateFailover", !.kind = "deployment",
                      !.type = "FAILOVER", !.id = id] IN
        IF id > Len(deployments)
        THEN req' = [r EXCEPT !.pc = "err", !.error = "not found"]
        ELSE IF ~failoverAllowed(deployments[id])
        THEN req' = [r EXCEPT !.pc = "err", !.error = "precondition",
                        !.status = deployments[id].status,
                        !.failoverRegion = deployments[id].failoverRegion]
        ELSE req' = [r EXCEPT !.pc = "create_job",
                        !.status = deployments[id].status,
                        !.failoverRegion = deployments[id].failoverRegion]
    /\ UNCHANGED <<wait, legacy, route, validation, templates, treq, resources, deployments, jobs, deploymentJobs, queue, worker,
                   infra, faults, crashes>>

\* prisma.job.create / prisma.deploymentJob.create of the request in progress
createJob ==
    /\ req.pc = "create_job"
    /\ \E outcome \in Outcomes :
        /\ MayThrow(outcome) /\ Count(outcome)
        /\ IF outcome = "throws"
           THEN /\ req' = [req EXCEPT !.pc = "err", !.error = "store"]
                /\ UNCHANGED <<jobs, deploymentJobs>>
           ELSE IF req.kind = "resource"
           THEN /\ jobs' = Append(jobs, newJob(req.id, req.type))
                /\ req' = [req EXCEPT !.pc = "enqueue", !.jobId = Len(jobs) + 1]
                /\ UNCHANGED deploymentJobs
           ELSE /\ deploymentJobs' = Append(deploymentJobs,
                                            newDeploymentJob(req.id, req.type))
                /\ req' = [req EXCEPT !.pc = "enqueue", !.jobId = Len(deploymentJobs) + 1]
                /\ UNCHANGED jobs
    /\ UNCHANGED <<wait, legacy, route, validation, templates, treq, resources, deployments, queue, worker, infra, crashes>>

\* queue.createJob(...).save() of the request in progress
enqueue ==
    /\ req.pc = "enqueue"
    /\ \E outcome \in Outcomes :
        /\ MayThrow(outcome) /\ Count(outcome)
        /\ IF outcome = "ok"
           THEN /\ queue' = Append(queue, message(req))
                /\ req' = [req EXCEPT !.pc = "ok"]
           ELSE /\ req' = [req EXCEPT !.pc = "err", !.error = "queue"]
                /\ UNCHANGED queue
    /\ UNCHANGED <<wait, legacy, route, validation, templates, treq, resources, deployments, jobs, deploymentJobs, worker, infra, crashes>>

\* the service call returns its result or rethrows its error
respond ==
    /\ req.pc \in {"ok", "err"}
    /\ req' = IdleReq
    /\ UNCHANGED <<wait, legacy, route, validation, templates, treq, resources, deployments, jobs, deploymentJobs, queue, worker,
                   infra, faults, crashes>>

\* --------------------------------------------------------------- workers
Min(S) == CHOOSE x \in S : \A y \in S : x <= y

\* the message a worker is processing
Msg(q) == queue[worker[q].msg]

\* the status each handler writes before it calls the provider or the IaC tool
inFlightStatus(q) ==
    CASE q = "CREATE" -> "CREATING"
      [] q = "UPDATE" -> "UPDATING"
      [] q = "DELETE" -> "DELETING"

\* the status each handler writes after the provider or the IaC tool succeeded
successStatus(q) == IF q = "DELETE" THEN "DELETED" ELSE "ACTIVE"

Waiting(q) ==
    {i \in 1..Len(queue) : queue[i].queue = q /\ queue[i].state = "waiting"}

\* where a handler goes when one of its statements throws
catch == "catch_status"

\* error.message of what terraformService rethrows: the raw error of the failed
\* call, which the handler never reads
IaCError == "IaC error"

\* a statement of the handler of queue q throws an error with this message
throw(q, text) == [worker EXCEPT ![q].pc = catch, ![q].error = text]

\* the resource loop of a deployment handler is skipped when it has nothing to do
afterLoop(todo) == IF todo = {} THEN "write_result" ELSE "records"

\* queue.process: the worker of queue q takes the oldest waiting message
dequeue(q) ==
    /\ worker[q].pc = "idle"
    /\ Waiting(q) # {}
    /\ LET i == Min(Waiting(q)) IN
        /\ queue' = [queue EXCEPT ![i].state = "active"]
        /\ worker' = [worker EXCEPT ![q] =
                         [IdleWorker EXCEPT !.pc = "job_processing", !.msg = i]]
    /\ UNCHANGED <<wait, legacy, route, validation, templates, treq, resources, deployments, jobs, deploymentJobs, req, infra,
                   faults, crashes>>

\* updateJobStatus(jobId, 'PROCESSING') / updateDeploymentJobStatus(jobId, 'PROCESSING')
jobProcessing(q) ==
    /\ worker[q].pc = "job_processing"
    /\ \E outcome \in Outcomes :
        /\ MayThrow(outcome) /\ Count(outcome)
        /\ IF outcome = "throws"
           THEN /\ worker' = throw(q, "store")
                /\ UNCHANGED <<jobs, deploymentJobs>>
           ELSE /\ worker' = [worker EXCEPT ![q].pc = "status_inflight"]
                /\ IF Msg(q).isDeployment
                   THEN /\ deploymentJobs' = updateDeploymentJobStatus(
                               deploymentJobs, Msg(q).jobId, "PROCESSING", NULL)
                        /\ UNCHANGED jobs
                   ELSE /\ jobs' = updateJobStatus(jobs, Msg(q).jobId, "PROCESSING", NULL)
                        /\ UNCHANGED deploymentJobs
    /\ UNCHANGED <<wait, legacy, route, validation, templates, treq, resources, deployments, queue, req, infra, crashes>>

\* updateResourceStatus(id, CREATING | UPDATING | DELETING) and its deployment twin
statusInFlight(q) ==
    /\ worker[q].pc = "status_inflight"
    /\ \E outcome \in Outcomes :
        /\ MayThrow(outcome) /\ Count(outcome)
        /\ IF outcome = "throws"
           THEN /\ worker' = throw(q, "store")
                /\ UNCHANGED <<resources, deployments>>
           ELSE IF Msg(q).isDeployment
           THEN /\ deployments' = updateDeploymentStatus(
                       deployments, Msg(q).entityId, inFlightStatus(q))
                /\ worker' = [worker EXCEPT ![q].pc = "find"]
                /\ UNCHANGED resources
           ELSE /\ resources' = updateResourceStatus(
                       resources, Msg(q).entityId, inFlightStatus(q))
                /\ worker' = [worker EXCEPT ![q].pc = "provider"]
                /\ UNCHANGED deployments
    /\ UNCHANGED <<wait, legacy, route, validation, templates, treq, jobs, deploymentJobs, queue, req, infra, crashes>>

\* findUnique of the resource, then providerFactory.create/update/deleteResource
providerWith(q, entities) ==
    /\ worker[q].pc = "provider"
    /\ LET resource == resources[Msg(q).entityId]
           service == getService(resource) IN
       IF service \in Unsupported
       THEN worker' = throw(q, service)
       ELSE \E entity \in IF q = "CREATE" THEN {NULL}
                           ELSE entitiesOf(service, entities) :
            \E result \in callService(q, service, resource, entity) :
                worker' = [IF result.error = NULL
                           THEN [worker EXCEPT ![q].pc = "write_result"]
                           ELSE throw(q, result.error)
                           EXCEPT ![q].service = service,
                                  ![q].entity = IF result.reached THEN entity ELSE NULL,
                                  ![q].mutated = result.mutated]
    /\ UNCHANGED <<wait, legacy, route, validation, templates, treq, resources, deployments, jobs, deploymentJobs, queue, req, infra,
                   faults, crashes>>

provider(q) == providerWith(q, EntityRunning)

\* the provider call on an entity in any state
providerOnAnyEntity(q) == providerWith(q, EntityStates)

\* the resource records a deployment owns, as findUnique({include: resources}) returns them
ownedResources(deploymentId) ==
    {[id |-> i, name |-> resources[i].name, resourceId |-> resources[i].resourceId] :
        i \in {j \in 1..Len(resources) : resources[j].deploymentId = deploymentId}}

\* the region a deployment job works in
targetRegion(msg, deployment) ==
    IF msg.isFailover THEN msg.targetRegion ELSE deployment.primaryRegion

\* prisma.deployment.findUnique of the three deployment handlers
find(q) ==
    /\ worker[q].pc = "find"
    /\ LET d == deployments[Msg(q).entityId] IN
        worker' = [worker EXCEPT
            ![q].pc = IF q = "UPDATE" THEN "update_params" ELSE "config_dir",
            ![q].name = d.name,
            ![q].parameters = IF q = "UPDATE" THEN Msg(q).updates ELSE d.parameters,
            ![q].region = targetRegion(Msg(q), d),
            ![q].snap = IF q = "CREATE" THEN {} ELSE ownedResources(Msg(q).entityId)]
    /\ UNCHANGED <<wait, legacy, route, validation, templates, treq, resources, deployments, jobs, deploymentJobs, queue, req, infra,
                   faults, crashes>>

\* processDeploymentUpdateJob: the write of the new parameters
updateParameters(q) ==
    /\ worker[q].pc = "update_params"
    /\ \E outcome \in Outcomes :
        /\ MayThrow(outcome) /\ Count(outcome)
        /\ IF outcome = "throws"
           THEN /\ worker' = throw(q, "store")
                /\ UNCHANGED deployments
           ELSE /\ deployments' = [deployments EXCEPT
                       ![Msg(q).entityId].parameters = worker[q].parameters]
                /\ worker' = [worker EXCEPT ![q].pc = "config_dir"]
    /\ UNCHANGED <<wait, legacy, route, validation, templates, treq, resources, jobs, deploymentJobs, queue, req, infra, crashes>>

\* one call of the IaC tool that changes no state the model keeps: it returns
\* and the handler goes on, or it throws its own error
step(q, pc, next) ==
    /\ worker[q].pc = pc
    /\ \E result \in Outcomes :
        worker' = IF result = "throws" THEN throw(q, IaCError)
                  ELSE [worker EXCEPT ![q].pc = next]
    /\ UNCHANGED <<wait, legacy, route, validation, templates, treq, resources, deployments, jobs, deploymentJobs,
                   queue, req, infra, faults, crashes>>

\* terraformService.createConfigDir for the deployment and the region
createConfigDir(q) == step(q, "config_dir", "init")

\* terraformService.init, with the handler skipping the plan
initThenApply(q) == step(q, "init", "apply")

\* terraformService.init; a delete job goes on to destroy, the others to plan
init(q) == step(q, "init", IF q = "DELETE" THEN "destroy" ELSE "plan")

\* terraformService.plan with the parameters of the deployment
plan(q) == step(q, "plan", "apply")

\* terraformService.apply in the workspace of the deployment and region
apply(q) ==
    /\ worker[q].pc = "apply"
    /\ \E result \in Outcomes :
        IF result = "throws"
        THEN /\ worker' = throw(q, IaCError)
             /\ UNCHANGED infra
        ELSE /\ worker' = [worker EXCEPT ![q].pc = "outputs"]
             /\ infra' = infra \cup {<<Msg(q).entityId, worker[q].region>>}
    /\ UNCHANGED <<wait, legacy, route, validation, templates, treq, resources, deployments, jobs, deploymentJobs, queue, req,
                   faults, crashes>>

\* terraformService.destroy in the workspace of the deployment and region
destroy(q) ==
    /\ worker[q].pc = "destroy"
    /\ \E result \in Outcomes :
        IF result = "throws"
        THEN /\ worker' = throw(q, IaCError)
             /\ UNCHANGED infra
        ELSE /\ worker' = [worker EXCEPT
                    ![q].todo = {r.id : r \in worker[q].snap},
                    ![q].pc = afterLoop({r.id : r \in worker[q].snap})]
             /\ infra' = infra \ {<<Msg(q).entityId, worker[q].region>>}
    /\ UNCHANGED <<wait, legacy, route, validation, templates, treq, resources, deployments, jobs, deploymentJobs, queue, req,
                   faults, crashes>>

\* the documents terraform output -json can hold: per key, whether it has an id
OutputDocs ==
    {o \in SUBSET (OutputKeys \X BOOLEAN) :
        \A a \in o, b \in o : a[1] = b[1] => a = b}

\* terraformService.getOutputs
getOutputs(q) ==
    /\ worker[q].pc = "outputs"
    /\ \/ worker' = throw(q, IaCError)
       \/ \E o \in OutputDocs :
            worker' = [worker EXCEPT ![q].outputs = o,
                          ![q].todo = {a[1] : a \in o},
                          ![q].pc = afterLoop({a[1] : a \in o})]
    /\ UNCHANGED <<wait, legacy, route, validation, templates, treq, resources, deployments, jobs, deploymentJobs, queue, req, infra,
                   faults, crashes>>

\* whether the output document gives key an id
hasId(outputs, key) == <<key, TRUE>> \in outputs

\* processDeploymentJob: prisma.resource.create for the next output key
createRecord(q) ==
    /\ worker[q].pc = "records" /\ q = "CREATE"
    /\ Len(resources) < MaxResources
    /\ \E outcome \in Outcomes :
        /\ MayThrow(outcome) /\ Count(outcome)
        /\ IF outcome = "throws"
           THEN /\ worker' = throw(q, "store")
                /\ UNCHANGED resources
           ELSE LET key == Min(worker[q].todo) IN
                /\ resources' = Append(resources,
                       outputResource(Msg(q).entityId, worker[q].name, key,
                                      hasId(worker[q].outputs, key), worker[q].region))
                /\ worker' = [worker EXCEPT ![q].todo = @ \ {key},
                                  ![q].pc = afterLoop(worker[q].todo \ {key})]
    /\ UNCHANGED <<wait, legacy, route, validation, templates, treq, deployments, jobs, deploymentJobs, queue, req, infra, crashes>>

\* the records of the snapshot that deployment.resources.find() can return for a key
existingResource(snap, name, key) == {r \in snap : r.name = <<name, key>>}

\* processDeploymentUpdateJob: update the record found for the next output key,
\* or create one
upsertRecord(q) ==
    /\ worker[q].pc = "records" /\ q = "UPDATE"
    /\ LET key == Min(worker[q].todo)
           found == existingResource(worker[q].snap, worker[q].name, key)
           done == [worker EXCEPT ![q].todo = @ \ {key},
                       ![q].pc = afterLoop(worker[q].todo \ {key})] IN
       /\ found = {} => Len(resources) < MaxResources
       /\ \E outcome \in Outcomes :
           /\ MayThrow(outcome) /\ Count(outcome)
           /\ IF outcome = "throws"
              THEN /\ worker' = throw(q, "store")
                   /\ UNCHANGED resources
              ELSE IF found = {}
              THEN /\ resources' = Append(resources,
                          outputResource(Msg(q).entityId, worker[q].name, key,
                                         hasId(worker[q].outputs, key), worker[q].region))
                   /\ worker' = done
              ELSE \E r \in found :
                   /\ resources' = [resources EXCEPT
                          ![r.id].status = "ACTIVE",
                          ![r.id].metadata = "output",
                          ![r.id].resourceId = IF hasId(worker[q].outputs, key)
                                               THEN "ext" ELSE r.resourceId]
                   /\ worker' = done
    /\ UNCHANGED <<wait, legacy, route, validation, templates, treq, deployments, jobs, deploymentJobs, queue, req, infra, crashes>>

\* processDeploymentDeleteJob: mark the next resource of the snapshot DELETED
deleteRecord(q) ==
    /\ worker[q].pc = "records" /\ q = "DELETE"
    /\ \E outcome \in Outcomes :
        /\ MayThrow(outcome) /\ Count(outcome)
        /\ IF outcome = "throws"
           THEN /\ worker' = throw(q, "store")
                /\ UNCHANGED resources
           ELSE LET id == Min(worker[q].todo) IN
                /\ resources' = updateResourceStatus(resources, id, "DELETED")
                /\ worker' = [worker EXCEPT ![q].todo = @ \ {id},
                                  ![q].pc = afterLoop(worker[q].todo \ {id})]
    /\ UNCHANGED <<wait, legacy, route, validation, templates, treq, deployments, jobs, deploymentJobs, queue, req, infra, crashes>>

\* resourceResult of a handler that forgets the external id once it has deleted
resourceResultClearingId(q, resource) ==
    [resource EXCEPT !.status = successStatus(q),
                     !.metadata = q,
                     !.resourceId = IF q = "CREATE" THEN "ext" ELSE NULL]

\* the fields the resource handlers write after the provider call: the status,
\* the metadata of the provider's result and, on create, the external id
resourceResult(q, resource) ==
    [resource EXCEPT !.status = successStatus(q),
                     !.metadata = q,
                     !.resourceId = IF q = "CREATE" THEN "ext" ELSE @]

\* the write of ACTIVE / DELETED to the resource or the deployment
writeResult(q) ==
    /\ worker[q].pc = "write_result"
    /\ \E outcome \in Outcomes :
        /\ MayThrow(outcome) /\ Count(outcome)
        /\ IF outcome = "throws"
           THEN /\ worker' = throw(q, "store")
                /\ UNCHANGED <<resources, deployments>>
           ELSE /\ worker' = [worker EXCEPT ![q].pc = "job_completed"]
                /\ IF Msg(q).isDeployment
                   THEN /\ deployments' = updateDeploymentStatus(
                               deployments, Msg(q).entityId, successStatus(q))
                        /\ UNCHANGED resources
                   ELSE /\ resources' = [resources EXCEPT ![Msg(q).entityId] =
                               resourceResult(q, resources[Msg(q).entityId])]
                        /\ UNCHANGED deployments
    /\ UNCHANGED <<wait, legacy, route, validation, templates, treq, jobs, deploymentJobs, queue, req, infra, crashes>>

\* updateJobStatus(jobId, 'COMPLETED', result) and its deployment twin
jobCompleted(q) ==
    /\ worker[q].pc = "job_completed"
    /\ \E outcome \in Outcomes :
        /\ MayThrow(outcome) /\ Count(outcome)
        /\ IF outcome = "throws"
           THEN /\ worker' = throw(q, "store")
                /\ UNCHANGED <<jobs, deploymentJobs>>
           ELSE /\ worker' = [worker EXCEPT ![q].pc = "return_ok"]
                /\ IF Msg(q).isDeployment
                   THEN /\ deploymentJobs' = updateDeploymentJobStatus(
                               deploymentJobs, Msg(q).jobId, "COMPLETED", NULL)
                        /\ UNCHANGED jobs
                   ELSE /\ jobs' = updateJobStatus(jobs, Msg(q).jobId, "COMPLETED", NULL)
                        /\ UNCHANGED deploymentJobs
    /\ UNCHANGED <<wait, legacy, route, validation, templates, treq, resources, deployments, queue, req, infra, crashes>>

\* catch: updateResourceStatus(id, 'FAILED') / updateDeploymentStatus(id, 'FAILED');
\* when this write throws, the handler ends without touching the job
catchStatus(q) ==
    /\ worker[q].pc = "catch_status"
    /\ \E outcome \in Outcomes :
        /\ MayThrow(outcome) /\ Count(outcome)
        /\ IF outcome = "throws"
           THEN /\ worker' = [worker EXCEPT ![q].pc = "return_err"]
                /\ UNCHANGED <<resources, deployments>>
           ELSE /\ worker' = [worker EXCEPT ![q].pc = "catch_job"]
                /\ IF Msg(q).isDeployment
                   THEN /\ deployments' = updateDeploymentStatus(
                               deployments, Msg(q).entityId, "FAILED")
                        /\ UNCHANGED resources
                   ELSE /\ resources' = updateResourceStatus(
                               resources, Msg(q).entityId, "FAILED")
                        /\ UNCHANGED deployments
    /\ UNCHANGED <<wait, legacy, route, validation, templates, treq, jobs, deploymentJobs, queue, req, infra, crashes>>

\* a catch block that rethrows without recording the failure in the job
catchJobSkipped(q) ==
    /\ worker[q].pc = "catch_job"
    /\ worker' = [worker EXCEPT ![q].pc = "return_err"]
    /\ UNCHANGED <<jobs, deploymentJobs>>
    /\ UNCHANGED <<wait, legacy, route, validation, templates, treq, resources, deployments, queue, req, infra, faults, crashes>>

\* catch: updateJobStatus(jobId, 'FAILED', null, error.message), then rethrow
catchJob(q) ==
    /\ worker[q].pc = "catch_job"
    /\ \E outcome \in Outcomes :
        /\ MayThrow(outcome) /\ Count(outcome)
        /\ worker' = [worker EXCEPT ![q].pc = "return_err"]
        /\ IF outcome = "throws"
           THEN UNCHANGED <<jobs, deploymentJobs>>
           ELSE IF Msg(q).isDeployment
           THEN /\ deploymentJobs' = updateDeploymentJobStatus(
                       deploymentJobs, Msg(q).jobId, "FAILED", worker[q].error)
                /\ UNCHANGED jobs
           ELSE /\ jobs' = updateJobStatus(jobs, Msg(q).jobId, "FAILED", worker[q].error)
                /\ UNCHANGED deploymentJobs
    /\ UNCHANGED <<wait, legacy, route, validation, templates, treq, resources, deployments, queue, req, infra, crashes>>

\* the handler returned: bee-queue records the message as succeeded
returnOk(q) ==
    /\ worker[q].pc = "return_ok"
    /\ queue' = [queue EXCEPT ![worker[q].msg].state = "succeeded"]
    /\ worker' = [worker EXCEPT ![q] = IdleWorker]
    /\ UNCHANGED <<wait, legacy, route, validation, templates, treq, resources, deployments, jobs, deploymentJobs, req, infra,
                   faults, crashes>>

\* the handler threw: bee-queue records the message as failed (no retries configured)
returnErr(q) ==
    /\ worker[q].pc = "return_err"
    /\ queue' = [queue EXCEPT ![worker[q].msg].state = "failed"]
    /\ worker' = [worker EXCEPT ![q] = IdleWorker]
    /\ UNCHANGED <<wait, legacy, route, validation, templates, treq, resources, deployments, jobs, deploymentJobs, req, infra,
                   faults, crashes>>

\* the worker process exits with a handler in progress (SIGTERM / SIGINT end in
\* process.exit); the stalled message is delivered again
shutdown(q) ==
    /\ worker[q].pc # "idle"
    /\ crashes < MaxCrashes
    /\ crashes' = crashes + 1
    /\ queue' = [queue EXCEPT ![worker[q].msg].state = "waiting"]
    /\ worker' = [worker EXCEPT ![q] = IdleWorker]
    /\ UNCHANGED <<wait, legacy, route, validation, templates, treq, resources, deployments, jobs, deploymentJobs, req, infra, faults>>

\* ------------------------------------------------------ template service
\* the update documents of updateTemplate: per column a new value or undefined
updatesOf(fields) == [f \in TemplateFields |-> IF f \in fields THEN "v2" ELSE UNDEF]

UpdateDocuments ==
    {updatesOf(SafeFields), updatesOf({"name"}),
     updatesOf({"parameters", "resources"}), updatesOf(TemplateFields)}

\* templateService.createTemplate: the required-field checks and
\* prisma.template.create
createTemplate ==
    /\ treq.pc = "idle" /\ Len(templates) < MaxTemplates
    /\ \E name \in TemplateNames \cup {UNDEF} :
        LET r == [IdleTreq EXCEPT !.op = "createTemplate"] IN
        IF name = UNDEF
        THEN /\ treq' = [r EXCEPT !.pc = "err", !.error = "required"]
             /\ UNCHANGED templates
        ELSE IF nameTaken(templates, 0, name)
        THEN /\ treq' = [r EXCEPT !.pc = "err", !.error = "unique"]
             /\ UNCHANGED templates
        ELSE /\ templates' = Append(templates, newTemplate(name))
             /\ treq' = [r EXCEPT !.pc = "ok", !.id = Len(templates) + 1]
    /\ UNCHANGED <<wait, legacy, route, validation, resources, deployments, jobs, deploymentJobs,
                   queue, worker, req,
                   infra, faults, crashes>>

\* templateService.updateTemplate: findUnique with the deployments of the template
updateTemplate ==
    /\ treq.pc = "idle"
    /\ \E id \in 1..MaxTemplates, updates \in UpdateDocuments :
        LET r == [IdleTreq EXCEPT !.op = "updateTemplate", !.id = id,
                      !.updates = updates] IN
        IF ~storedTemplate(templates, id)
        THEN treq' = [r EXCEPT !.pc = "err", !.error = "not found"]
        ELSE treq' = [r EXCEPT !.pc = "write",
                         !.hasDeployments = hasDeployments(deployments, id)]
    /\ UNCHANGED <<wait, legacy, route, validation, resources, deployments, jobs, deploymentJobs,
                   queue, worker, req,
                   infra, faults, crashes, templates>>

\* templateService.updateTemplate: prisma.template.update of the safe columns
\* when the template read had deployments, of all columns otherwise
updateTemplateRecord ==
    /\ treq.pc = "write" /\ treq.op = "updateTemplate"
    /\ LET fields == IF treq.hasDeployments THEN SafeFields ELSE TemplateFields
           row == applyUpdates(templates[treq.id], treq.updates, fields) IN
       IF ~storedTemplate(templates, treq.id)
       THEN /\ treq' = [treq EXCEPT !.pc = "err", !.error = "not found"]
            /\ UNCHANGED templates
       ELSE IF nameTaken(templates, treq.id, row.name)
       THEN /\ treq' = [treq EXCEPT !.pc = "err", !.error = "unique"]
            /\ UNCHANGED templates
       ELSE /\ templates' = [templates EXCEPT ![treq.id] = row]
            /\ treq' = [treq EXCEPT !.pc = "ok"]
    /\ UNCHANGED <<wait, legacy, route, validation, resources, deployments, jobs, deploymentJobs,
                   queue, worker, req,
                   infra, faults, crashes>>

\* templateService.deleteTemplate: findUnique with the deployments of the template
deleteTemplate ==
    /\ treq.pc = "idle"
    /\ \E id \in 1..MaxTemplates :
        LET r == [IdleTreq EXCEPT !.op = "deleteTemplate", !.id = id] IN
        IF ~storedTemplate(templates, id)
        THEN treq' = [r EXCEPT !.pc = "err", !.error = "not found"]
        ELSE IF hasDeployments(deployments, id)
        THEN treq' = [r EXCEPT !.pc = "err", !.error = "has deployments",
                         !.hasDeployments = TRUE]
        ELSE treq' = [r EXCEPT !.pc = "delete"]
    /\ UNCHANGED <<wait, legacy, route, validation, resources, deployments, jobs, deploymentJobs,
                   queue, worker, req,
                   infra, faults, crashes, templates>>

\* templateService.deleteTemplate: prisma.template.delete, which the store
\* rejects while a deployment row references the template (ON DELETE RESTRICT)
deleteTemplateRecord ==
    /\ treq.pc = "delete" /\ treq.op = "deleteTemplate"
    /\ IF hasDeployments(deployments, treq.id)
       THEN /\ treq' = [treq EXCEPT !.pc = "err", !.error = "foreign key"]
            /\ UNCHANGED templates
       ELSE /\ templates' = [templates EXCEPT ![treq.id] = NoTemplate]
            /\ treq' = [treq EXCEPT !.pc = "ok"]
    /\ UNCHANGED <<wait, legacy, route, validation, resources, deployments, jobs, deploymentJobs,
                   queue, worker, req,
                   infra, faults, crashes>>

\* the templateService call returns its result or rethrows its error
respondTemplate ==
    /\ treq.pc \in {"ok", "err"}
    /\ treq' = IdleTreq
    /\ UNCHANGED <<wait, legacy, route, validation, resources, deployments, jobs, deploymentJobs,
                   queue, worker, req,
                   infra, faults, crashes, templates>>

\* ------------------------------------------------------------------ Next
Request ==
    \/ createResource \/ updateResource \/ updateResourceInfo \/ deleteResource
    \/ createDeployment \/ createDeploymentRecord
    \/ updateDeployment \/ updateDeploymentInfo \/ updateDeploymentParameters
    \/ deleteDeployment \/ deleteDeploymentStatus
    \/ initiateFailover
    \/ createJob \/ enqueue \/ respond

Work(q) ==
    \/ dequeue(q) \/ jobProcessing(q) \/ statusInFlight(q)
    \/ provider(q)
    \/ find(q) \/ updateParameters(q)
    \/ createConfigDir(q) \/ init(q) \/ plan(q) \/ apply(q) \/ destroy(q)
    \/ getOutputs(q)
    \/ createRecord(q) \/ upsertRecord(q) \/ deleteRecord(q)
    \/ writeResult(q) \/ jobCompleted(q) \/ returnOk(q)
    \/ catchStatus(q) \/ catchJob(q) \/ returnErr(q)

Next == Request \/ \E q \in QueueNames : Work(q)

\* the system with a reliable store and workers that never exit
Spec == Init /\ [][Next]_vars

\* the system with a reliable store and worker processes that keep running:
\* bee-queue hands every waiting message to its handler, and every await of a
\* handler resumes and moves it to its next await
position(q) == <<worker[q].pc, worker[q].msg, worker[q].todo>>
\* a request handler that has begun resumes after each await as well
Resume == req.pc # "idle" /\ Request
SpecLive ==
    /\ Init /\ [][Next]_vars
    /\ \A q \in QueueNames : WF_position(q)(Work(q))
    /\ WF_req(Resume)

\* the system with a store and a queue that can fail
SpecFaults == InitFaults /\ [][Next]_vars

\* the system with worker processes that exit while a handler runs
NextRedelivery == Next \/ \E q \in QueueNames : shutdown(q)

SpecRedelivery == Init /\ [][NextRedelivery]_vars

\* the system with requests that rename resources and deployments
NextRename == Next \/ updateResourceRenaming \/ updateDeploymentRenaming

SpecRename == Init /\ [][NextRename]_vars

\* a deployment with a failover region whose CREATE job has completed: the
\* state after createDeployment and processDeploymentJob
InitDeployed ==
    /\ resources = <<>>
    /\ deployments = <<[newDeployment("app", "p1", "us-west-2", 1)
                            EXCEPT !.status = "ACTIVE"]>>
    /\ jobs = <<>>
    /\ deploymentJobs = <<[newDeploymentJob(1, "CREATE") EXCEPT !.status = "COMPLETED"]>>
    /\ queue = <<[message([IdleReq EXCEPT !.kind = "deployment", !.type = "CREATE",
                                          !.id = 1, !.jobId = 1])
                      EXCEPT !.state = "succeeded"]>>
    /\ worker = [q \in QueueNames |-> IdleWorker]
    /\ req = IdleReq
    /\ infra = {<<1, "us-east-1">>}
    /\ faults = 0
    /\ crashes = 0
    /\ templates = StoredTemplates
    /\ treq = IdleTreq
    /\ wait = IdleWait
    /\ legacy = IdleLegacy
    /\ route = IdleRoute
    /\ validation = IdleValidation

\* the handlers of deployment jobs
WorkDeployment(q) ==
    \/ dequeue(q) \/ jobProcessing(q) \/ statusInFlight(q)
    \/ find(q) \/ updateParameters(q)
    \/ createConfigDir(q) \/ init(q) \/ plan(q) \/ apply(q) \/ destroy(q)
    \/ getOutputs(q)
    \/ createRecord(q) \/ upsertRecord(q) \/ deleteRecord(q)
    \/ writeResult(q) \/ jobCompleted(q) \/ returnOk(q)
    \/ catchStatus(q) \/ catchJob(q) \/ returnErr(q)

\* the requests a created deployment accepts, and the handlers
NextDeployed ==
    \/ updateDeployment \/ updateDeploymentInfo \/ updateDeploymentParameters
    \/ initiateFailover
    \/ deleteDeploymentLater \/ deleteDeploymentStatus
    \/ createJob \/ enqueue \/ respond
    \/ \E q \in QueueNames : WorkDeployment(q)

SpecDeployed == InitDeployed /\ [][NextDeployed]_vars

\* the requests and the handlers of standalone resources of every kind
ResourceRequest ==
    \/ createResourceOfAnyKind \/ updateResource \/ updateResourceInfo
    \/ deleteResource \/ createJob \/ enqueue \/ respond

WorkResource(q) ==
    \/ dequeue(q) \/ jobProcessing(q) \/ statusInFlight(q) \/ provider(q)
    \/ writeResult(q) \/ jobCompleted(q)
    \/ catchStatus(q) \/ catchJob(q) \/ returnOk(q) \/ returnErr(q)

NextDispatch == ResourceRequest \/ \E q \in QueueNames : WorkResource(q)

SpecDispatch == Init /\ [][NextDispatch]_vars

\* the same with provider entities in every state
WorkEntities(q) ==
    \/ dequeue(q) \/ jobProcessing(q) \/ statusInFlight(q)
    \/ providerOnAnyEntity(q)
    \/ writeResult(q) \/ jobCompleted(q)
    \/ catchStatus(q) \/ catchJob(q) \/ returnOk(q) \/ returnErr(q)

NextEntities == ResourceRequest \/ \E q \in QueueNames : WorkEntities(q)

SpecEntities == Init /\ [][NextEntities]_vars

\* the request side of the system with the template service, starting without
\* templates; the workers, which neither read nor write a template and never
\* add or remove a deployment row, stay idle
TemplateRequest ==
    \/ createTemplate \/ updateTemplate \/ updateTemplateRecord
    \/ deleteTemplate \/ deleteTemplateRecord \/ respondTemplate

NextTemplates == Request \/ TemplateRequest

SpecTemplates == InitTemplates /\ [][NextTemplates]_vars

\* ------------------------------------------------------------ properties
\* the handler of queue q has run to its end (it is about to return or rethrow)
Finished(q) == worker[q].pc \in {"return_ok", "return_err"}

\* the job record and the entity status the handler of queue q works on
JobRecord(q) ==
    IF Msg(q).isDeployment THEN deploymentJobs[Msg(q).jobId] ELSE jobs[Msg(q).jobId]

EntityStatus(q) ==
    IF Msg(q).isDeployment THEN deployments[Msg(q).entityId].status
    ELSE resources[Msg(q).entityId].status

\* C1: when a worker handler finishes, a COMPLETED job has an entity that is
\* ACTIVE or DELETED and a FAILED job has an entity that is FAILED.
C1_TerminalStatusConsistent ==
    \A q \in QueueNames :
        Finished(q) =>
            /\ JobRecord(q).status = "COMPLETED" =>
                   EntityStatus(q) \in {"ACTIVE", "DELETED"}
            /\ JobRecord(q).status = "FAILED" => EntityStatus(q) = "FAILED"

\* C2: when a worker handler finishes, its job is COMPLETED or FAILED and its
\* entity is in no in-flight state; when it threw, the entity is FAILED and the
\* job is FAILED with the error message recorded.
C2_NoStuckInFlight ==
    \A q \in QueueNames :
        Finished(q) =>
            /\ JobRecord(q).status \in {"COMPLETED", "FAILED"}
            /\ EntityStatus(q) \notin InFlight
            /\ worker[q].pc = "return_err" =>
                   /\ EntityStatus(q) = "FAILED"
                   /\ JobRecord(q).status = "FAILED"
                   /\ JobRecord(q).error # NULL

\* the order PENDING -> PROCESSING -> COMPLETED | FAILED
Rank(status) ==
    CASE status = "PENDING" -> 0
      [] status = "PROCESSING" -> 1
      [] status \in {"COMPLETED", "FAILED"} -> 2

Forward(old, new) ==
    old # new => Rank(old) < Rank(new)

\* C3: a job status never moves backwards and never leaves COMPLETED or FAILED,
\* redelivery of a message included.
C3_JobStatusForward ==
    [][/\ \A j \in 1..Len(jobs) : Forward(jobs[j].status, jobs'[j].status)
       /\ \A j \in 1..Len(deploymentJobs) :
              Forward(deploymentJobs[j].status, deploymentJobs'[j].status)]_vars

\* the records a step adds to a table
Added(old, new) == {new[i] : i \in (Len(old) + 1)..Len(new)}

\* C4 as stated: every resource record and every deployment record is first
\* written with status PENDING, by a request handler or by a worker.
C4_EntryPendingAlways ==
    [][/\ \A r \in Added(resources, resources') : r.status = "PENDING"
       /\ \A d \in Added(deployments, deployments') : d.status = "PENDING"]_vars

\* C4 amended: a record created by a request handler is first written PENDING;
\* a resource record created by a worker from the IaC outputs is first written
\* ACTIVE.
C4_EntryStatusByCreator ==
    [][/\ \A r \in Added(resources, resources') :
              r.status = IF req' # req THEN "PENDING" ELSE "ACTIVE"
       /\ \A d \in Added(deployments, deployments') :
              d.status = "PENDING" /\ req' # req]_vars

\* C4 witness: the store holds a resource created by a request, a deployment
\* and a resource created by a worker from the outputs of that deployment.
C4_Witness ==
    /\ \E i \in 1..Len(resources) : resources[i].deploymentId = 0
    /\ \E i \in 1..Len(resources) :
           /\ resources[i].deploymentId # 0
           /\ resources[i].deploymentId <= Len(deployments)

\* a worker that is processing a job of the entity takes the step
WorkerStepOn(kind, id) ==
    /\ req' = req
    /\ \E q \in QueueNames :
        /\ worker[q].msg # 0
        /\ worker'[q] # worker[q]
        /\ Msg(q).isDeployment = (kind = "deployment")
        /\ Msg(q).entityId = id

\* one change of status of one entity, against the lifecycle shape
Conforms(kind, id, old, new) ==
    old # new =>
        /\ new \in InFlight =>
               old \in {"PENDING", "ACTIVE", "FAILED"} /\ WorkerStepOn(kind, id)
        /\ old \in InFlight => new \in Terminal
        /\ req' # req => new = "PENDING"

\* C5: CREATING, UPDATING and DELETING are entered only by a worker processing a
\* job of the entity and only from PENDING, ACTIVE or FAILED; they are left only
\* for ACTIVE, DELETED or FAILED; a request handler writes no status but PENDING.
C5_LifecycleShape ==
    [][/\ \A i \in 1..Len(resources) :
              Conforms("resource", i, resources[i].status, resources'[i].status)
       /\ \A i \in 1..Len(deployments) :
              Conforms("deployment", i, deployments[i].status,
                       deployments'[i].status)]_vars

\* the messages of the queues that carry a job id of a job table
MessagesOf(q, isDeployment, jobId) ==
    {i \in 1..Len(q) : q[i].isDeployment = isDeployment /\ q[i].jobId = jobId}

\* C6: when an asynchronous request is accepted, the status stored for its
\* entity is PENDING and one new PENDING job has been created for it and queued.
C6_AcceptedRequestPending ==
    [][req.pc = "enqueue" /\ req'.pc = "ok" =>
          /\ IF req.kind = "deployment"
             THEN /\ deployments'[req.id].status = "PENDING"
                  /\ deploymentJobs'[req.jobId].status = "PENDING"
                  /\ deploymentJobs'[req.jobId].deploymentId = req.id
             ELSE /\ resources'[req.id].status = "PENDING"
                  /\ jobs'[req.jobId].status = "PENDING"
                  /\ jobs'[req.jobId].resourceId = req.id
          /\ Cardinality(MessagesOf(queue', req.kind = "deployment", req.jobId)) = 1
      ]_vars

\* C7: once a request handler has returned or failed, every job record has
\* exactly one queue message and every message names a job record.
C7_JobsAndMessagesOneToOne ==
    req.pc \in {"idle", "ok", "err"} =>
        /\ \A j \in 1..Len(jobs) : Cardinality(MessagesOf(queue, FALSE, j)) = 1
        /\ \A j \in 1..Len(deploymentJobs) :
               Cardinality(MessagesOf(queue, TRUE, j)) = 1
        /\ \A i \in 1..Len(queue) :
               queue[i].jobId \in 1..Len(IF queue[i].isDeployment
                                         THEN deploymentJobs ELSE jobs)

\* C8: a resource that is not DELETED has an external id exactly when its
\* status is ACTIVE, UPDATING or DELETING.
C8_ExternalIdIffProvisioned ==
    \A i \in 1..Len(resources) :
        resources[i].status # "DELETED" =>
            (resources[i].resourceId # NULL
                <=> resources[i].status \in {"ACTIVE", "UPDATING", "DELETING"})

\* the job and the message initiateFailover has to leave behind
FailoverJob(job, deploymentId) ==
    job = [deploymentId |-> deploymentId, type |-> "FAILOVER",
           status |-> "PENDING", error |-> NULL]

FailoverMessage(m, deploymentId, jobId, region) ==
    /\ m.queue = "CREATE" /\ m.isDeployment /\ m.isFailover
    /\ m.entityId = deploymentId /\ m.jobId = jobId
    /\ m.targetRegion = region /\ m.state = "waiting"

\* C9: initiateFailover goes ahead only for a deployment that is ACTIVE and has
\* a failover region when it is read, and rejects every other call with nothing
\* written; going ahead it creates one PENDING FAILOVER job, and succeeding it
\* has saved one message on the CREATE queue with isFailover and with the
\* failover region that was read as targetRegion.
C9_FailoverRequestContract ==
    [][req' # req /\ (req'.op = "initiateFailover" \/ req.op = "initiateFailover") =>
          /\ req.pc = "idle" =>
                /\ UNCHANGED <<deployments, deploymentJobs, jobs, queue>>
                /\ req'.pc # "err" <=>
                       /\ req'.id <= Len(deployments)
                       /\ deployments[req'.id].status = "ACTIVE"
                       /\ deployments[req'.id].failoverRegion # NULL
                /\ req'.pc # "err" =>
                       req'.failoverRegion = deployments[req'.id].failoverRegion
          /\ Len(deploymentJobs') # Len(deploymentJobs) /\ req' # req =>
                /\ req.pc = "create_job" /\ req'.pc = "enqueue"
                /\ Len(deploymentJobs') = Len(deploymentJobs) + 1
                /\ req'.jobId = Len(deploymentJobs')
                /\ FailoverJob(deploymentJobs'[req'.jobId], req.id)
          /\ Len(jobs') = Len(jobs)
          /\ Len(queue') # Len(queue) =>
                /\ req.pc = "enqueue" /\ req'.pc = "ok"
                /\ Len(queue') = Len(queue) + 1
                /\ FailoverMessage(queue'[Len(queue')], req.id, req.jobId,
                                   req.failoverRegion)
          /\ req'.pc = "ok" /\ req.pc # "ok" =>
                /\ Len(queue') = Len(queue) + 1
                /\ Cardinality(MessagesOf(queue', TRUE, req.jobId)) = 1
          /\ req'.pc = "err" => UNCHANGED <<deployments, deploymentJobs, jobs, queue>>
      ]_vars

\* C9 witness: initiateFailover has succeeded and left its job and its message.
C9_Witness ==
    /\ req.op = "initiateFailover" /\ req.pc = "ok"
    /\ FailoverJob(deploymentJobs[req.jobId], req.id)
    /\ \E i \in 1..Len(queue) :
           FailoverMessage(queue[i], req.id, req.jobId, "us-west-2")

\* C10: a failover job starts its apply in the target region only after the
\* infrastructure of the old region has been destroyed, and it ends with the
\* deployment ACTIVE when every step succeeded and FAILED when a step failed.
C10_FailoverDestroysThenRecreates ==
    \A q \in QueueNames :
        worker[q].msg # 0 /\ Msg(q).isFailover =>
            /\ worker[q].pc \in {"apply", "outputs", "records", "write_result",
                                 "job_completed", "return_ok"} =>
                   <<Msg(q).entityId, deployments[Msg(q).entityId].primaryRegion>>
                       \notin infra
            /\ worker[q].pc = "return_ok" =>
                   deployments[Msg(q).entityId].status = "ACTIVE"
            /\ worker[q].pc = "return_err" =>
                   deployments[Msg(q).entityId].status = "FAILED"

\* C11: when a failover job has completed successfully, the deployment is
\* ACTIVE and every ACTIVE resource record of the deployment has the failover
\* target region as its region (none still names the old region).
C11_FailoverReindexesResources ==
    \A q \in QueueNames :
        worker[q].pc = "return_ok" /\ Msg(q).isFailover =>
            /\ deployments[Msg(q).entityId].status = "ACTIVE"
            /\ \A i \in 1..Len(resources) :
                   /\ resources[i].deploymentId = Msg(q).entityId
                   /\ resources[i].status = "ACTIVE"
                   => resources[i].region = Msg(q).targetRegion

\* a createDeployment or updateDeployment call whose parameters fail validation
InvalidCall(r) ==
    r.op \in {"createDeployment", "updateDeployment"} /\ r.parameters \in InvalidParams

\* C12: a createDeployment or updateDeployment call whose parameters fail the
\* validation ends in an error; none of its steps creates a job record, saves
\* a queue message, stores a deployment record or changes a deployment status.
C12_ValidationFailuresStaySynchronous ==
    [][req' # req /\ (InvalidCall(req) \/ InvalidCall(req')) =>
          /\ UNCHANGED <<jobs, deploymentJobs, queue>>
          /\ Len(deployments') = Len(deployments)
          /\ \A i \in 1..Len(deployments) :
                 deployments'[i].status = deployments[i].status
          /\ req'.pc \in {"update_info", "err", "idle"}
          /\ req'.pc = "update_info" => req'.op = "updateDeployment"
          /\ req'.pc = "idle" => req.pc = "err"
      ]_vars

\* C12 witness: updateDeployment has rejected invalid parameters for a stored
\* deployment.
C12_Witness ==
    /\ req.op = "updateDeployment" /\ req.pc = "err" /\ req.error = "invalid"
    /\ req.parameters \in InvalidParams
    /\ req.id <= Len(deployments)

\* the status of the entity a request names, as the store holds it
StoredStatus(r) ==
    IF r.kind = "resource" THEN resources[r.id].status ELSE deployments[r.id].status

Stored(r) ==
    r.id <= (IF r.kind = "resource" THEN Len(resources) ELSE Len(deployments))

\* C13: updateResource, updateDeployment, deleteResource and deleteDeployment
\* called on an entity that is DELETING or DELETED end in an error, and
\* neither the call nor the return of the error writes a job record, a queue
\* message or any field of an entity.
C13_PreconditionErrorsSideEffectFree ==
    [][/\ /\ req.pc = "idle"
          /\ req'.op \in {"updateResource", "updateDeployment",
                          "deleteResource", "deleteDeployment"}
          /\ Stored(req')
          /\ StoredStatus(req') \in {"DELETING", "DELETED"}
          => /\ req'.pc = "err"
             /\ UNCHANGED <<resources, deployments, jobs, deploymentJobs, queue>>
       /\ req.pc = "err" /\ req' # req
          => /\ req' = IdleReq
             /\ UNCHANGED <<resources, deployments, jobs, deploymentJobs, queue>>
      ]_vars

\* C13 witness: deleteResource has been rejected for a resource that is
\* DELETING or DELETED.
C13_Witness ==
    /\ req.op = "deleteResource" /\ req.pc = "err" /\ req.error = "state"
    /\ resources[req.id].status \in {"DELETING", "DELETED"}

\* the deployments whose only job is their CREATE job
OnlyCreated ==
    {d \in 1..Len(deployments) :
        \A j \in 1..Len(deploymentJobs) :
            deploymentJobs[j].deploymentId = d => deploymentJobs[j].type = "CREATE"}

\* C14: delivering a message again leaves the store as one delivery leaves it;
\* for a deployment that has only had its CREATE job this means that it never
\* owns two resource records for the same output key.
C14_RedeliveryLeavesNoDuplicates ==
    \A d \in OnlyCreated :
        \A i, j \in 1..Len(resources) :
            /\ resources[i].deploymentId = d
            /\ resources[j].deploymentId = d
            /\ resources[i].name = resources[j].name
            => i = j

\* the resource records deployment d owns for output key k
RecordsFor(d, k) ==
    {i \in 1..Len(resources) :
        resources[i].deploymentId = d /\ resources[i].name[2] = k}

\* the records of the snapshot an update job has read that belong to key k
SnapshotFor(q, k) == {r.id : r \in {x \in worker[q].snap : x.name[2] = k}}

\* no resource record of deployment d has been renamed through updateResource
KeepsOutputNames(d) ==
    \A i \in 1..Len(resources) :
        resources[i].deploymentId = d => resources[i].name[2] \in OutputKeys

\* C15: when a deployment update job has completed successfully, and no
\* record of the deployment was renamed by hand, every key of the IaC outputs
\* that had a resource record when the job read the deployment still has
\* exactly that record (it was updated in place, no second record was created
\* for the key), and a key that had none has at least one record.
C15_OneRecordPerOutputKey ==
    LET q == "UPDATE" IN
        /\ worker[q].pc = "return_ok" /\ Msg(q).isDeployment
        /\ KeepsOutputNames(Msg(q).entityId)
        => \A o \in worker[q].outputs :
               IF SnapshotFor(q, o[1]) # {}
               THEN RecordsFor(Msg(q).entityId, o[1]) = SnapshotFor(q, o[1])
               ELSE Cardinality(RecordsFor(Msg(q).entityId, o[1])) >= 1

\* every record of the old table is still there, changed at most in the fields
\* of the set fields
ChangedOnly(old, new, fields) ==
    /\ Len(new) >= Len(old)
    /\ \A i \in 1..Len(old) :
           \A f \in (DOMAIN old[i]) \ fields : new[i][f] = old[i][f]

\* a step of the handler of the DELETE queue
DeleteJobStep == worker'["DELETE"] # worker["DELETE"]

Referencing(t) == {d \in 1..Len(deployments) : deployments[d].templateId = t}

\* every deployment row references a stored template
ReferentialIntegrity ==
    \A d \in 1..Len(deployments) :
        storedTemplate(templates, deployments[d].templateId)

\* what a step may do to the template table: a deleteTemplate call that finds
\* a referencing deployment ends in an error with the template kept; its
\* delete removes the row exactly when no deployment references it at that
\* moment; nothing else removes a template row
DeleteTemplateContract ==
    /\ /\ treq.pc = "idle" /\ treq'.op = "deleteTemplate"
       /\ storedTemplate(templates, treq'.id) /\ Referencing(treq'.id) # {}
       => treq'.pc = "err" /\ UNCHANGED templates
    /\ treq.pc = "delete" /\ treq' # treq
       => IF Referencing(treq.id) # {}
          THEN treq'.pc = "err" /\ UNCHANGED templates
          ELSE treq'.pc = "ok" /\ ~storedTemplate(templates', treq.id)
    /\ \A t \in 1..Len(templates) :
           storedTemplate(templates, t) /\ ~storedTemplate(templates', t)
           => treq.op = "deleteTemplate" /\ treq.id = t /\ Referencing(t) = {}

\* C17: deleteTemplate is rejected and keeps the template whenever a
\* deployment references it, and removes it when none does; in every
\* reachable state every deployment references a stored template, also when
\* deleteTemplate and createDeployment interleave.
C17_TemplateDeleteKeepsReferences ==
    []ReferentialIntegrity /\ [][DeleteTemplateContract]_vars

\* C17 witness: createDeployment stored a deployment between the read and the
\* delete of a deleteTemplate call, and the delete was rejected.
C17_Witness ==
    /\ treq.op = "deleteTemplate" /\ treq.pc = "err" /\ treq.error = "foreign key"
    /\ Referencing(treq.id) # {}
    /\ storedTemplate(templates, treq.id)

\* C18: no step changes a column other than description and version of a
\* template that a deployment references when the step is taken.
C18_TemplateFrozenWithDeployments ==
    [][\A t \in 1..Len(templates) :
           /\ storedTemplate(templates, t) /\ storedTemplate(templates', t)
           /\ Referencing(t) # {}
           => \A f \in TemplateFields \ SafeFields :
                  templates'[t][f] = templates[t][f]]_vars

\* C18 for a call that already found a deployment when it read the template:
\* its write changes description and version at most.
C18_SafeUpdateAfterRead ==
    [][treq.pc = "write" /\ treq.hasDeployments /\ treq' # treq
       => \A f \in TemplateFields \ SafeFields :
              templates'[treq.id][f] = templates[treq.id][f]]_vars

\* the positions of a deployment handler at a call of the IaC tool
IaCSteps == {"config_dir", "init", "plan", "apply", "destroy", "outputs"}

\* the positions of a handler inside its catch block
CatchSteps == {"catch_status", "catch_job", "return_err"}

\* the call that follows a successful call, NULL after the last one
NextStep(q, pc) ==
    CASE pc = "config_dir" -> "init"
      [] pc = "init" -> IF q = "DELETE" THEN "destroy" ELSE "plan"
      [] pc = "plan" -> "apply"
      [] pc = "apply" -> "outputs"
      [] OTHER -> NULL

\* the handler of queue q takes a step
Moves(q) == worker'[q] # worker[q]

\* a call is reached from the call before it, and a call that returns is
\* followed by the next one; a call that throws leads into the catch block
\* with the error of that call
StepOrder(q) ==
    /\ worker'[q].pc \in IaCSteps /\ worker'[q].pc # worker[q].pc
        => IF worker[q].pc \in IaCSteps
           THEN worker'[q].pc = NextStep(q, worker[q].pc)
           ELSE /\ worker'[q].pc = "config_dir"
                /\ worker[q].pc \in {"find", "update_params"}
    /\ worker[q].pc \in IaCSteps /\ Moves(q)
        => \/ worker'[q].pc = NextStep(q, worker[q].pc)
           \/ /\ worker'[q].pc = catch
              /\ worker'[q].error = IaCError
              /\ infra' = infra
           \/ /\ worker[q].pc \in {"destroy", "outputs"}
              /\ worker'[q].pc \in {"records", "write_result"}

\* in the catch block after a failed call: no further call, the infrastructure
\* stays as the failed call left it, the deployment is written FAILED, the
\* deployment job FAILED with the text of the failed call, and the message
\* ends failed
AbortedJob(q) ==
    worker[q].pc \in CatchSteps /\ worker[q].error = IaCError
    /\ Moves(q)
        => /\ infra' = infra
           /\ worker[q].pc = "catch_status"
                => /\ worker'[q].pc = "catch_job"
                   /\ deployments'[Msg(q).entityId].status = "FAILED"
           /\ worker[q].pc = "catch_job"
                => /\ worker'[q].pc = "return_err"
                   /\ deploymentJobs'[Msg(q).jobId].status = "FAILED"
                   /\ deploymentJobs'[Msg(q).jobId].error = worker[q].error
           /\ worker[q].pc = "return_err"
                => /\ worker'[q].pc = "idle"
                   /\ queue'[worker[q].msg].state = "failed"
                   /\ deploymentJobs[Msg(q).jobId].status = "FAILED"

SupportedPairs ==
    {<<"AWS", "EC2">>, <<"AWS", "S3">>, <<"GCP", "ComputeEngine">>, <<"GCP", "Disk">>}

\* the handler of queue q works on a standalone resource without a provisioner
UnsupportedJob(q) ==
    /\ worker[q].pc # "idle" /\ ~Msg(q).isDeployment
    /\ LET r == resources[Msg(q).entityId] IN <<r.provider, r.type>> \notin SupportedPairs

\* the factory throws 'Unsupported ...' and no service is called; the catch
\* block writes the resource FAILED and the job FAILED with that text, and the
\* message ends failed
FailsUnsupported(q) ==
    UnsupportedJob(q) /\ Moves(q)
        => /\ worker'[q].service = NULL
           /\ worker'[q].pc # "write_result"
           /\ worker[q].pc = "provider"
                => worker'[q].pc = catch /\ worker'[q].error \in Unsupported
           /\ worker[q].pc = "catch_status"
                => /\ worker'[q].pc = "catch_job"
                   /\ resources'[Msg(q).entityId].status = "FAILED"
           /\ worker[q].pc = "catch_job"
                => /\ worker'[q].pc = "return_err"
                   /\ worker[q].error \in Unsupported
                   /\ jobs'[Msg(q).jobId].status = "FAILED"
                   /\ jobs'[Msg(q).jobId].error = worker[q].error
           /\ worker[q].pc = "return_err"
                => queue'[worker[q].msg].state = "failed"

\* a message that ended failed is never delivered again
NotRetried ==
    \A m \in 1..Len(queue) : queue[m].state = "failed" => queue'[m].state = "failed"

\* C20: for a resource whose (provider, type) is not (AWS, EC2), (AWS, S3),
\* (GCP, ComputeEngine) or (GCP, Disk), create/update/deleteResource of the
\* provider factory throw an 'Unsupported ...' error before any service is
\* called, and the worker ends the job with the resource FAILED and the job
\* FAILED, and the message is not retried.
C20_UnsupportedPairFails ==
    [][NotRetried /\ \A q \in QueueNames : FailsUnsupported(q)]_vars

\* the job of a resource with a GCP provider and an AWS type has ended
C20_Witness ==
    \E m \in 1..Len(queue) :
        /\ queue[m].state = "failed" /\ ~queue[m].isDeployment
        /\ resources[queue[m].entityId].provider = "GCP"
        /\ resources[queue[m].entityId].type = "EC2"
        /\ resources[queue[m].entityId].status = "FAILED"
        /\ jobs[queue[m].jobId].status = "FAILED"
        /\ jobs[queue[m].jobId].error = "Unsupported GCP resource type"
\* ---------------------------------------------------------- region mapping
\* String.prototype.startsWith and String.prototype.includes
startsWith(s, prefix) ==
    Len(s) >= Len(prefix) /\ SubSeq(s, 1, Len(prefix)) = prefix

includes(s, part) ==
    \E i \in 1..(Len(s) - Len(part) + 1) : SubSeq(s, i, i + Len(part) - 1) = part

\* the regionMap literal of the branch that maps GCP regions to AWS regions
gcpToAws ==
    "us-central1" :> "us-east-1" @@ "us-east4" :> "us-east-1" @@
    "us-west1" :> "us-west-1" @@ "us-west2" :> "us-west-2" @@
    "us-west3" :> "us-west-2" @@ "us-west4" :> "us-west-2" @@
    "europe-west1" :> "eu-west-1" @@ "europe-west2" :> "eu-west-2" @@
    "europe-west3" :> "eu-central-1" @@ "asia-east1" :> "ap-northeast-1" @@
    "asia-northeast1" :> "ap-northeast-1" @@ "asia-southeast1" :> "ap-southeast-1"

\* the regionMap literal of the branch that maps AWS regions to GCP regions
awsToGcp ==
    "us-east-1" :> "us-east4" @@ "us-east-2" :> "us-east4" @@
    "us-west-1" :> "us-west1" @@ "us-west-2" :> "us-west2" @@
    "eu-west-1" :> "europe-west1" @@ "eu-west-2" :> "europe-west2" @@
    "eu-central-1" :> "europe-west3" @@ "ap-northeast-1" :> "asia-northeast1" @@
    "ap-southeast-1" :> "asia-southeast1"

\* names that every object literal inherits from Object.prototype, and the
\* (truthy, non-string) function found under them
ObjectPrototype == {"constructor", "toString"}
InheritedFunction == "[Function]"

\* regionMap[newRegion] || fallback
lookup(regionMap, newRegion, fallback) ==
    IF newRegion \in DOMAIN regionMap THEN regionMap[newRegion]
    ELSE IF newRegion \in ObjectPrototype THEN InheritedFunction
    ELSE fallback

\* the mapping of a region name to the target provider, as the deploy,
\* switchRegion and failover routes compute mappedRegion
mapRegion(newRegion, newProvider) ==
    IF /\ newProvider = "AWS"
       /\ ~startsWith(newRegion, "us-east-")
       /\ ~startsWith(newRegion, "us-west-")
    THEN lookup(gcpToAws, newRegion, "us-east-1")
    ELSE IF /\ newProvider = "GCP"
            /\ ~includes(newRegion, "central")
            /\ ~includes(newRegion, "east4")
    THEN lookup(awsToGcp, newRegion, "us-east4")
    ELSE newRegion

\* startsWith and includes are no methods of a value that is no string
mapRegionThrows(newRegion) == newRegion = InheritedFunction

\* the region names a route is given: the regions of both tables and strings
\* that are in neither
UnknownRegions == {"", "mars-1", "us-east-9", "northcentral", "constructor"}
TableRegions ==
    DOMAIN gcpToAws \cup DOMAIN awsToGcp
    \cup {gcpToAws[r] : r \in DOMAIN gcpToAws}
    \cup {awsToGcp[r] : r \in DOMAIN awsToGcp}
RegionInputs == TableRegions \cup UnknownRegions

otherProvider(newProvider) == IF newProvider = "AWS" THEN "GCP" ELSE "AWS"

\* a route is asked to move a deployment to newProvider in newRegion
InitRegions ==
    /\ resources = <<>>
    /\ deployments = <<>>
    /\ jobs = <<>>
    /\ deploymentJobs = <<>>
    /\ queue = <<>>
    /\ worker = [q \in QueueNames |-> IdleWorker]
    /\ req = IdleReq
    /\ infra = {}
    /\ faults = 0
    /\ crashes = 0
    /\ templates = StoredTemplates
    /\ treq = IdleTreq
    /\ wait = IdleWait
    /\ legacy = IdleLegacy
    /\ validation = IdleValidation
    /\ route \in {[pc |-> "request", leg |-> 1, origin |-> r, newRegion |-> r,
                   newProvider |-> p, mappedRegion |-> NULL, error |-> NULL] :
                  r \in RegionInputs, p \in Providers}

\* the route computes mappedRegion
mapRegionOfRoute ==
    /\ route.pc = "request"
    /\ route' = IF mapRegionThrows(route.newRegion)
                THEN [route EXCEPT !.pc = "failed", !.error = "TypeError"]
                ELSE [route EXCEPT !.pc = "mapped",
                        !.mappedRegion = mapRegion(route.newRegion, route.newProvider)]
    /\ UNCHANGED <<wait, legacy, validation, templates, treq, resources, deployments, jobs,
                   deploymentJobs, queue, worker, req, infra, faults, crashes>>

\* the way back: the next route is asked to move the deployment from the
\* mapped region to the other provider
routeBack ==
    /\ route.pc = "mapped" /\ route.leg = 1
    /\ route' = [route EXCEPT !.pc = "request", !.leg = 2,
                    !.newRegion = route.mappedRegion,
                    !.newProvider = otherProvider(route.newProvider),
                    !.mappedRegion = NULL]
    /\ UNCHANGED <<wait, legacy, validation, templates, treq, resources, deployments, jobs,
                   deploymentJobs, queue, worker, req, infra, faults, crashes>>

NextRegions == mapRegionOfRoute \/ routeBack

SpecRegions == InitRegions /\ [][NextRegions]_vars

\* ------------------------------------------------------ template validator
\* an optional member of a document: <<>> when it is undefined, else <<x>>
None == <<>>
Some(x) == <<x>>

\* JSON values of a parameters document
string(s) == [kind |-> "string", n |-> 0, s |-> s]
number(n) == [kind |-> "number", n |-> n, s |-> ""]
boolean == [kind |-> "boolean", n |-> 1, s |-> ""]
null == [kind |-> "null", n |-> 0, s |-> ""]

\* the names a schema or a parameters document can hold, in insertion order
ParamNames == <<"a", "b">>

\* the values a parameters document gives a name
ParamValues ==
    {string(""), string("ab"), string("abc"), number(1), number(3), number(7),
     boolean, null}

\* a property schema without any constraint
anySchema ==
    [type |-> UNDEF, enum |-> None, minimum |-> None, maximum |-> None,
     minLength |-> None, maxLength |-> None]

\* the property schemas of the templates
ParamSchemas ==
    {[anySchema EXCEPT !.type = "string", !.minLength = Some(1), !.maxLength = Some(2)],
     [anySchema EXCEPT !.type = "integer", !.minimum = Some(2), !.maximum = Some(5)],
     [anySchema EXCEPT !.type = "string", !.enum = Some({string("ab"), number(3)})],
     [anySchema EXCEPT !.minimum = Some(2), !.maxLength = Some(2)],
     [anySchema EXCEPT !.type = "boolean"]}

\* template.parameters: required is undefined or an array of names, properties
\* gives a name its property schema or nothing
Schemas ==
    [required : {None, Some(<<>>), Some(<<"a">>), Some(<<"b">>), Some(<<"a", "b">>)},
     properties : [{"a", "b"} -> {None} \cup {Some(ps) : ps \in ParamSchemas}]]

\* the parameters documents
Parameters == [{"a", "b"} -> {None} \cup {Some(v) : v \in ParamValues}]

\* templateService.validateType
validateType(value, type) ==
    CASE type = "string" -> value.kind = "string"
      [] type = "number" -> value.kind = "number"
      [] type = "integer" -> value.kind = "number"
      [] type = "boolean" -> value.kind = "boolean"
      [] type = "array" -> FALSE
      [] type = "object" -> FALSE
      [] OTHER -> TRUE

\* the number a value is converted to by < and >, None for NaN
toNumber(value) ==
    CASE value.kind = "number" -> Some(value.n)
      [] value.kind = "boolean" -> Some(value.n)
      [] value.kind = "null" -> Some(0)
      [] value.kind = "string" -> IF value.s = "" THEN Some(0) ELSE None

\* paramValue.length: of a string its length, of a number or a boolean
\* undefined; null has no properties
length(value) == IF value.kind = "string" THEN Some(Len(value.s)) ELSE None
lengthThrows(value) == value.kind = "null"

\* one entry of result.errors, by the check that pushed it
error(check, paramName) == <<check, paramName>>

\* the errors the loop over schema.required pushes
RECURSIVE requiredErrors(_, _)
requiredErrors(required, parameters) ==
    IF required = <<>> THEN <<>>
    ELSE (IF parameters[Head(required)] = None
          THEN <<error("required", Head(required))>> ELSE <<>>)
         \o requiredErrors(Tail(required), parameters)

\* the errors one pass of the loop over schema.properties pushes
propertyErrors(paramName, paramSchema, paramValue) ==
    (IF paramSchema.type # UNDEF /\ ~validateType(paramValue, paramSchema.type)
     THEN <<error("type", paramName)>> ELSE <<>>)
    \o (IF paramSchema.enum # None /\ paramValue \notin paramSchema.enum[1]
        THEN <<error("enum", paramName)>> ELSE <<>>)
    \o (IF paramSchema.type \in {"number", "integer"}
        THEN (IF /\ paramSchema.minimum # None /\ toNumber(paramValue) # None
                 /\ toNumber(paramValue)[1] < paramSchema.minimum[1]
              THEN <<error("minimum", paramName)>> ELSE <<>>)
             \o (IF /\ paramSchema.maximum # None /\ toNumber(paramValue) # None
                    /\ toNumber(paramValue)[1] > paramSchema.maximum[1]
                 THEN <<error("maximum", paramName)>> ELSE <<>>)
        ELSE <<>>)
    \o (IF paramSchema.type = "string"
        THEN (IF /\ paramSchema.minLength # None /\ length(paramValue) # None
                 /\ length(paramValue)[1] < paramSchema.minLength[1]
              THEN <<error("minLength", paramName)>> ELSE <<>>)
             \o (IF /\ paramSchema.maxLength # None /\ length(paramValue) # None
                    /\ length(paramValue)[1] > paramSchema.maxLength[1]
                 THEN <<error("maxLength", paramName)>> ELSE <<>>)
        ELSE <<>>)

\* whether that pass throws: paramValue.length is read for a declared string
\* with a length constraint
propertyThrows(paramSchema, paramValue) ==
    /\ paramSchema.type = "string"
    /\ paramSchema.minLength # None \/ paramSchema.maxLength # None
    /\ lengthThrows(paramValue)

\* the passes the loop over Object.entries(schema.properties) makes: the
\* declared names whose parameter is not undefined
checked(schema, parameters) ==
    SelectSeq(ParamNames,
              LAMBDA paramName : /\ schema.properties[paramName] # None
                                 /\ parameters[paramName] # None)

\* result as the call finds it after the calls before it
keptResult(result) == result

\* const result = { valid: true, errors: [] }
newResult(result) == [valid |-> TRUE, errors |-> <<>>]

\* result.valid = false; result.errors.push(...) for each of the errors
push(result, errors) ==
    IF errors = <<>> THEN result
    ELSE [valid |-> FALSE, errors |-> result.errors \o errors]

\* the errors of the passes over the names, in order
RECURSIVE passes(_, _, _)
passes(names, schema, parameters) ==
    IF names = <<>> THEN <<>>
    ELSE propertyErrors(Head(names), schema.properties[Head(names)][1],
                        parameters[Head(names)][1])
         \o passes(Tail(names), schema, parameters)

\* a template's schema and a parameters document are handed to the validator
InitValidate ==
    /\ resources = <<>>
    /\ deployments = <<>>
    /\ jobs = <<>>
    /\ deploymentJobs = <<>>
    /\ queue = <<>>
    /\ worker = [q \in QueueNames |-> IdleWorker]
    /\ req = IdleReq
    /\ infra = {}
    /\ faults = 0
    /\ crashes = 0
    /\ templates = StoredTemplates
    /\ treq = IdleTreq
    /\ wait = IdleWait
    /\ legacy = IdleLegacy
    /\ route = IdleRoute
    /\ validation \in {[pc |-> "called", schema |-> schema, parameters |-> parameters,
                        result |-> IdleValidation.result, returns |-> <<>>] :
                       schema \in Schemas, parameters \in Parameters}

\* validateParameters, entry: result and schema
validateParametersBegin ==
    /\ validation.pc = "called"
    /\ validation' = [validation EXCEPT !.pc = "required",
                                        !.result = newResult(validation.result)]
    /\ UNCHANGED <<wait, legacy, route, templates, treq, resources, deployments, jobs,
                   deploymentJobs, queue, worker, req, infra, faults, crashes>>

\* the loop over schema.required
checkRequired ==
    /\ validation.pc = "required"
    /\ validation' =
        [validation EXCEPT !.pc = "properties",
            !.result = IF validation.schema.required = None THEN @
                       ELSE push(@, requiredErrors(validation.schema.required[1],
                                                   validation.parameters))]
    /\ UNCHANGED <<wait, legacy, route, templates, treq, resources, deployments, jobs,
                   deploymentJobs, queue, worker, req, infra, faults, crashes>>

\* the loop over schema.properties, which a TypeError of one pass ends
checkProperties ==
    /\ validation.pc = "properties"
    /\ LET schema == validation.schema
           parameters == validation.parameters
           names == checked(schema, parameters) IN
       validation' =
        IF \E i \in 1..Len(names) :
               propertyThrows(schema.properties[names[i]][1], parameters[names[i]][1])
        THEN [validation EXCEPT !.pc = "thrown"]
        ELSE [validation EXCEPT !.pc = "return",
                                !.result = push(@, passes(names, schema, parameters))]
    /\ UNCHANGED <<wait, legacy, route, templates, treq, resources, deployments, jobs,
                   deploymentJobs, queue, worker, req, infra, faults, crashes>>

\* return result
returnResult ==
    /\ validation.pc = "return"
    /\ validation' = [validation EXCEPT !.pc = "returned",
                                        !.returns = Append(@, validation.result)]
    /\ UNCHANGED <<wait, legacy, route, templates, treq, resources, deployments, jobs,
                   deploymentJobs, queue, worker, req, infra, faults, crashes>>

\* the caller validates the same documents once more
callAgain ==
    /\ validation.pc = "returned" /\ Len(validation.returns) < MaxCalls
    /\ validation' = [validation EXCEPT !.pc = "called"]
    /\ UNCHANGED <<wait, legacy, route, templates, treq, resources, deployments, jobs,
                   deploymentJobs, queue, worker, req, infra, faults, crashes>>

NextValidate ==
    \/ validateParametersBegin
    \/ checkRequired
    \/ checkProperties
    \/ returnResult
    \/ callAgain

SpecValidate == InitValidate /\ [][NextValidate]_vars

\* ------------------------------------------------- GCP zone operations
\* the calls of computeEngineService and diskService that start a zone
\* operation
OperationSites ==
    {"instances.insert", "instances.setMetadata", "instances.delete",
     "disks.insert", "disks.resize", "disks.setLabels", "disks.delete"}

\* the states a zone operation is in at the provider: running, done, done with
\* an error
OperationStates == {"RUNNING", "DONE", "DONE_ERROR"}

\* operation.status === 'DONE'
done(operation) == operation \in {"DONE", "DONE_ERROR"}

\* a check of operation.error that never finds one
operationErrorNever(operation) == operation = NULL

\* operation.error of an operation that is DONE
operationError(operation) == operation = "DONE_ERROR"

\* Date.now() - startTime > maxWaitTime
timedOut(elapsed) == elapsed > maxWaitTime

\* a service method is about to start a zone operation
InitWait ==
    /\ resources = <<>>
    /\ deployments = <<>>
    /\ jobs = <<>>
    /\ deploymentJobs = <<>>
    /\ queue = <<>>
    /\ worker = [q \in QueueNames |-> IdleWorker]
    /\ req = IdleReq
    /\ infra = {}
    /\ faults = 0
    /\ crashes = 0
    /\ templates = StoredTemplates
    /\ treq = IdleTreq
    /\ route = IdleRoute
    /\ validation = IdleValidation
    /\ legacy = IdleLegacy
    /\ wait \in {[IdleWait EXCEPT !.pc = "call", !.site = site] : site \in OperationSites}

\* the client call of the service method: it returns the started operation or
\* rejects; waitForZoneOperation is entered with startTime = Date.now()
startOperation ==
    /\ wait.pc = "call"
    /\ \E result \in Outcomes :
        wait' = IF result = "throws"
                THEN [wait EXCEPT !.pc = "thrown", !.error = "provider"]
                ELSE [wait EXCEPT !.pc = "poll", !.elapsed = 0]
    /\ UNCHANGED <<legacy, route, validation, templates, treq, resources, deployments,
                   jobs, deploymentJobs, queue, worker, req, infra, faults, crashes>>

\* the provider finishes the operation, with or without an error
operationEnds ==
    /\ wait.pc \in {"poll", "sleep"} /\ wait.remote = "RUNNING"
    /\ \E remote \in {"DONE", "DONE_ERROR"} : wait' = [wait EXCEPT !.remote = remote]
    /\ UNCHANGED <<legacy, route, validation, templates, treq, resources, deployments,
                   jobs, deploymentJobs, queue, worker, req, infra, faults, crashes>>

\* one pass of the loop of waitForZoneOperation up to its sleep:
\* zoneOperationsClient.get, which takes its time and can reject, the check of
\* the status and of the error, and the check of the time
poll ==
    /\ wait.pc = "poll"
    /\ \E result \in Outcomes, took \in {0, operationPollInterval} :
        LET elapsed == wait.elapsed + took
            polled == [wait EXCEPT !.elapsed = elapsed, !.operation = wait.remote,
                          !.late = @ + IF timedOut(wait.elapsed) THEN 1 ELSE 0] IN
        wait' = IF result = "throws"
                THEN [wait EXCEPT !.pc = "thrown", !.error = "get", !.elapsed = elapsed]
                ELSE IF done(wait.remote)
                THEN IF operationError(wait.remote)
                     THEN [polled EXCEPT !.pc = "thrown", !.error = "Operation failed"]
                     ELSE [polled EXCEPT !.pc = "returned"]
                ELSE IF timedOut(elapsed)
                THEN [polled EXCEPT !.pc = "thrown", !.error = "Operation timed out"]
                ELSE [polled EXCEPT !.pc = "sleep"]
    /\ UNCHANGED <<legacy, route, validation, templates, treq, resources, deployments,
                   jobs, deploymentJobs, queue, worker, req, infra, faults, crashes>>

\* setTimeout(resolve, operationPollInterval): the timer fires on time or late
sleep ==
    /\ wait.pc = "sleep"
    /\ \E slept \in {operationPollInterval, operationPollInterval + 1} :
        wait' = [wait EXCEPT !.pc = "poll", !.elapsed = @ + slept]
    /\ UNCHANGED <<legacy, route, validation, templates, treq, resources, deployments,
                   jobs, deploymentJobs, queue, worker, req, infra, faults, crashes>>

NextWait == startOperation \/ operationEnds \/ poll \/ sleep

\* the event loop runs every pending continuation and timer
SpecWait ==
    /\ InitWait /\ [][NextWait]_vars
    /\ WF_vars(startOperation) /\ WF_vars(poll) /\ WF_vars(sleep)

\* ------------------------------------------- legacy Terraform API
\* legacy.rows is the deployment table of the legacy API, legacy.logs its
\* operationLog table, legacy.ops the requests in progress and over,
\* legacy.env the credential that process.env (and the shared key file) names
\* for each provider, legacy.tfvars the region that terraform.tfvars names in
\* each module directory of each deployment workspace.

\* the two texts of the service that the repository holds
Versions == {1, 2}
Credentials == {"cred1", "cred2"}
DeployRegions == {"us-east-1"}
NewRegions == {"us-west-2"}
Commands == {"init", "destroy", "apply", "output"}

\* the awaits of deploy, switchRegion and failover inside try, in order
stages(operation, version) ==
    CASE operation = "DEPLOY" /\ version = 1 ->
            <<"set_running", "logs_running", "find", "credentials", "vars",
              "init", "apply", "output", "complete", "logs_completed">>
      [] operation = "DEPLOY" /\ version = 2 ->
            <<"find", "credentials", "vars", "init", "apply", "output", "complete">>
      [] operation = "SWITCH_REGION" ->
            <<"set_running", "logs_running", "find", "credentials", "vars",
              "init", "destroy", "apply", "output", "complete", "logs_completed">>
      [] operation = "FAILOVER" ->
            <<"set_running", "logs_running", "find", "credentials",
              "init", "destroy", "credentials_new", "vars",
              "init", "apply", "output", "complete", "logs_completed">>

\* the locals of a request that has not read anything yet
newOperation(deploymentId, operation) ==
    [pc |-> "route_update", at |-> 0, deploymentId |-> deploymentId,
     operation |-> operation, log |-> 0, newRegion |-> NULL, newProvider |-> NULL,
     provider |-> NULL, region |-> NULL, credential |-> NULL, path |-> NULL,
     installed |-> NULL]

\* the await an operation is at
stage(o) ==
    IF legacy.ops[o].pc = "service"
    THEN stages(legacy.ops[o].operation, legacy.version)[legacy.ops[o].at]
    ELSE legacy.ops[o].pc

\* the operation after the await it is at has resolved
advance(op) ==
    IF op.at = Len(stages(op.operation, legacy.version))
    THEN [op EXCEPT !.pc = "completed"]
    ELSE [op EXCEPT !.at = op.at + 1]

\* prisma.operationLog.updateMany({where: {deploymentId, operation, status}, data: {status}})
updateMany(logs, deploymentId, operation, status, newStatus) ==
    [l \in 1..Len(logs) |->
        IF /\ logs[l].deploymentId = deploymentId
           /\ logs[l].operation = operation
           /\ logs[l].status = status
        THEN [logs[l] EXCEPT !.status = newStatus]
        ELSE logs[l]]

provisionerUnchanged ==
    UNCHANGED <<wait, route, validation, templates, treq, resources, deployments, jobs,
                deploymentJobs, queue, worker, req, infra, faults, crashes>>

\* POST /: deployment row and operation log PENDING, deploy started and not awaited
postDeployment ==
    /\ Len(legacy.rows) < MaxLegacyDeployments /\ Len(legacy.ops) < MaxRequests
    /\ \E cloud \in Providers, region \in DeployRegions, credentialId \in Credentials :
        legacy' = [legacy EXCEPT
            !.rows = Append(@, [status |-> "PENDING", provider |-> cloud,
                                region |-> region, credentialId |-> credentialId,
                                terraformPath |-> cloud]),
            !.logs = Append(@, [deploymentId |-> Len(legacy.rows) + 1,
                                operation |-> "DEPLOY", status |-> "PENDING"]),
            !.ops = Append(@, [newOperation(Len(legacy.rows) + 1, "DEPLOY")
                                  EXCEPT !.pc = "service", !.at = 1,
                                         !.log = Len(legacy.logs) + 1])]
    /\ provisionerUnchanged

\* POST /:id/switch-region and POST /:id/failover up to the status check; a
\* deployment that is RUNNING gets 400 'Deployment is currently running'
postOperation(operation) ==
    /\ Len(legacy.ops) < MaxRequests
    /\ \E id \in 1..Len(legacy.rows), region \in NewRegions, target \in Providers :
        /\ legacy.rows[id].status # "RUNNING"
        /\ legacy' = [legacy EXCEPT
              !.ops = Append(@, [newOperation(id, operation)
                                    EXCEPT !.newRegion = region,
                                           !.newProvider =
                                               IF operation = "FAILOVER" THEN target
                                               ELSE legacy.rows[id].provider])]
    /\ provisionerUnchanged

postSwitchRegion == postOperation("SWITCH_REGION")

postFailover == postOperation("FAILOVER")

\* the route: prisma.deployment.update({data: {status: 'PENDING'}})
routeUpdate(o) ==
    /\ o <= Len(legacy.ops) /\ stage(o) = "route_update"
    /\ legacy' = [legacy EXCEPT
          !.rows[legacy.ops[o].deploymentId].status = "PENDING",
          !.ops[o].pc = "route_log"]
    /\ provisionerUnchanged

\* the route: prisma.operationLog.create, then the service call that is not awaited
routeLog(o) ==
    /\ o <= Len(legacy.ops) /\ stage(o) = "route_log"
    /\ legacy' = [legacy EXCEPT
          !.logs = Append(@, [deploymentId |-> legacy.ops[o].deploymentId,
                              operation |-> legacy.ops[o].operation,
                              status |-> "PENDING"]),
          !.ops[o] = [@ EXCEPT !.pc = "service", !.at = 1,
                               !.log = Len(legacy.logs) + 1]]
    /\ provisionerUnchanged

\* the service: prisma.deployment.update({data: {status: 'RUNNING'}})
setRunning(o) ==
    /\ o <= Len(legacy.ops) /\ stage(o) = "set_running"
    /\ legacy' = [legacy EXCEPT
          !.rows[legacy.ops[o].deploymentId].status = "RUNNING",
          !.ops[o] = advance(@)]
    /\ provisionerUnchanged

\* the service: operationLog.updateMany PENDING -> RUNNING
logsRunning(o) ==
    /\ o <= Len(legacy.ops) /\ stage(o) = "logs_running"
    /\ legacy' = [legacy EXCEPT
          !.logs = updateMany(@, legacy.ops[o].deploymentId, legacy.ops[o].operation,
                              "PENDING", "RUNNING"),
          !.ops[o] = advance(@)]
    /\ provisionerUnchanged

\* the service: prisma.deployment.findUnique({include: {credential: true}})
findDeployment(o) ==
    /\ o <= Len(legacy.ops) /\ stage(o) = "find"
    /\ LET row == legacy.rows[legacy.ops[o].deploymentId] IN
       legacy' = [legacy EXCEPT
          !.ops[o] = advance([@ EXCEPT !.provider = row.provider, !.region = row.region,
                                       !.credential = row.credentialId,
                                       !.path = row.terraformPath])]
    /\ provisionerUnchanged

\* setupCredentials: the process environment (the one key file) of the
\* provider names the credential of this operation; failover does it a second
\* time for the new provider and goes on in the module directory of that one
setupCredentials(o) ==
    /\ o <= Len(legacy.ops) /\ stage(o) \in {"credentials", "credentials_new"}
    /\ LET op == legacy.ops[o]
           cloud == IF stage(o) = "credentials" THEN op.provider ELSE op.newProvider IN
       legacy' = [legacy EXCEPT
          !.env[cloud] = op.credential,
          !.ops[o] = advance([@ EXCEPT !.path = cloud, !.installed = op.credential])]
    /\ provisionerUnchanged

\* the region the variables file of an operation names
varsRegion(op) ==
    CASE op.operation = "DEPLOY" /\ legacy.version = 1 -> mapRegion(op.region, op.provider)
      [] op.operation = "DEPLOY" /\ legacy.version = 2 -> NULL
      [] op.operation = "SWITCH_REGION" -> mapRegion(op.newRegion, op.provider)
      [] op.operation = "FAILOVER" -> mapRegion(op.newRegion, op.newProvider)

\* createTerraformVars: terraform.tfvars of the module directory is rewritten
createTerraformVars(o) ==
    /\ o <= Len(legacy.ops) /\ stage(o) = "vars"
    /\ LET op == legacy.ops[o] IN
       legacy' = [legacy EXCEPT
          !.tfvars[<<op.deploymentId, op.path>>] = varsRegion(op),
          !.ops[o] = advance(@)]
    /\ provisionerUnchanged

\* runTerraformCommand: terraform runs in the module directory with the
\* environment of the process, and exits with 0 or not
runTerraformCommand(o) ==
    /\ o <= Len(legacy.ops) /\ stage(o) \in Commands
    /\ \E outcome \in Outcomes :
        legacy' = [legacy EXCEPT
            !.ops[o] = IF outcome = "ok" THEN advance(@)
                       ELSE [@ EXCEPT !.pc = "catch_status"]]
    /\ provisionerUnchanged

\* the service: prisma.deployment.update with status COMPLETED and what the
\* operation changed
complete(o) ==
    /\ o <= Len(legacy.ops) /\ stage(o) = "complete"
    /\ LET op == legacy.ops[o] IN
       legacy' = [legacy EXCEPT
          !.rows[op.deploymentId] =
              [@ EXCEPT !.status = "COMPLETED",
                        !.region = IF op.operation = "DEPLOY" THEN @ ELSE op.newRegion,
                        !.provider = IF op.operation = "FAILOVER" THEN op.newProvider ELSE @,
                        !.terraformPath =
                            IF op.operation = "SWITCH_REGION" THEN @ ELSE op.path],
          !.ops[o] = advance(@)]
    /\ provisionerUnchanged

\* the service: operationLog.updateMany RUNNING -> COMPLETED
logsCompleted(o) ==
    /\ o <= Len(legacy.ops) /\ stage(o) = "logs_completed"
    /\ legacy' = [legacy EXCEPT
          !.logs = updateMany(@, legacy.ops[o].deploymentId, legacy.ops[o].operation,
                              "RUNNING", "COMPLETED"),
          !.ops[o] = advance(@)]
    /\ provisionerUnchanged

\* catch: prisma.deployment.update({data: {status: 'FAILED'}})
catchDeployment(o) ==
    /\ o <= Len(legacy.ops) /\ stage(o) = "catch_status"
    /\ legacy' = [legacy EXCEPT
          !.rows[legacy.ops[o].deploymentId].status = "FAILED",
          !.ops[o].pc = "catch_logs"]
    /\ provisionerUnchanged

\* catch: operationLog.updateMany RUNNING -> FAILED
catchLogs(o) ==
    /\ o <= Len(legacy.ops) /\ stage(o) = "catch_logs"
    /\ legacy' = [legacy EXCEPT
          !.logs = updateMany(@, legacy.ops[o].deploymentId, legacy.ops[o].operation,
                              "RUNNING", "FAILED"),
          !.ops[o].pc = "failed"]
    /\ provisionerUnchanged

InitLegacy ==
    /\ resources = <<>> /\ deployments = <<>> /\ jobs = <<>> /\ deploymentJobs = <<>>
    /\ queue = <<>> /\ worker = [q \in QueueNames |-> IdleWorker] /\ req = IdleReq
    /\ infra = {} /\ faults = 0 /\ crashes = 0
    /\ templates = StoredTemplates /\ treq = IdleTreq
    /\ wait = IdleWait /\ route = IdleRoute /\ validation = IdleValidation
    /\ legacy \in {[IdleLegacy EXCEPT !.version = version] : version \in Versions}

NextLegacy ==
    \/ postDeployment \/ postSwitchRegion \/ postFailover
    \/ \E o \in 1..MaxRequests :
        \/ routeUpdate(o) \/ routeLog(o)
        \/ setRunning(o) \/ logsRunning(o) \/ findDeployment(o)
        \/ setupCredentials(o) \/ createTerraformVars(o) \/ runTerraformCommand(o)
        \/ complete(o) \/ logsCompleted(o)
        \/ catchDeployment(o) \/ catchLogs(o)

SpecLegacy == InitLegacy /\ [][NextLegacy]_vars

\* the handler of queue q works on a standalone resource that has a
\* provisioner and was created by it
ProvisionedJob(q) ==
    /\ worker[q].pc # "idle" /\ ~Msg(q).isDeployment
    /\ LET r == resources[Msg(q).entityId] IN
        <<r.provider, r.type>> \in SupportedPairs /\ r.resourceId # NULL

\* an update whose service found the entity outside its running / ready state
\* issued no mutating call and threw
UpdateNeedsRunning(q) ==
    /\ ProvisionedJob(q) /\ worker[q].pc = "provider" /\ Moves(q)
    /\ worker'[q].entity \in EntityStates \ {"running"}
    => /\ ~worker'[q].mutated
       /\ worker'[q].pc = catch

\* C21: updateResource of every provisioner (EC2, S3, ComputeEngine, Disk)
\* applies changes only when the provider's entity is in its running / ready
\* state; in any other state it throws before it issues a mutating provider
\* call (and the job ends FAILED without a retry).
C21_UpdateOnlyWhenRunning == [][UpdateNeedsRunning("UPDATE")]_vars

\* a DELETE job whose deleting call found the entity gone ends as a success
DeleteOfAbsentSucceeds(q) ==
    /\ ProvisionedJob(q) /\ worker[q].entity = "absent" /\ Moves(q)
    /\ worker[q].pc \in {"return_ok", "return_err"}
    => /\ queue'[worker[q].msg].state = "succeeded"
       /\ jobs[Msg(q).jobId].status = "COMPLETED"
       /\ resources[Msg(q).entityId].status = "DELETED"

\* C22: a DELETE job that runs against a resource whose provider entity is
\* already gone (the provider call reports not-found) is a terminal success:
\* the job ends COMPLETED and the resource DELETED.
C22_DeleteIdempotent == [][DeleteOfAbsentSucceeds("DELETE")]_vars

\* the region names of a provider and the table that maps to it
regionsOf(newProvider) ==
    IF newProvider = "AWS"
    THEN DOMAIN awsToGcp \cup {gcpToAws[r] : r \in DOMAIN gcpToAws}
    ELSE DOMAIN gcpToAws \cup {awsToGcp[r] : r \in DOMAIN awsToGcp}
tableTo(newProvider) == IF newProvider = "AWS" THEN gcpToAws ELSE awsToGcp
defaultOf(newProvider) == IF newProvider = "AWS" THEN "us-east-1" ELSE "us-east4"

\* the reference function of the region mapping
referenceRegion(r, newProvider) ==
    IF r \in regionsOf(newProvider) THEN r
    ELSE IF r \in DOMAIN tableTo(newProvider) THEN tableTo(newProvider)[r]
    ELSE defaultOf(newProvider)

\* C23: for every region named in the two lookup tables and either target
\* provider, the mapped region is the reference function's: the region itself
\* when it is a region of the target provider, else the table's value for it,
\* else the provider's default.
C23_MapRegionIsReference ==
    route.pc = "mapped" /\ route.newRegion \in TableRegions
    => route.mappedRegion = referenceRegion(route.newRegion, route.newProvider)

\* the regions that the mapping to newProvider does not tell from r
regionClass(r, newProvider) ==
    {r} \cup {x \in RegionInputs : mapRegion(x, newProvider) = mapRegion(r, newProvider)}

\* C24: a round trip of a region r through provider P2 and back to P1 never
\* throws and ends in r's equivalence class (r itself or a region with the
\* same P2 region) or in P1's default.
C24_RoundTrip ==
    route.leg = 2 /\ route.pc \in {"mapped", "failed"}
    => /\ route.pc = "mapped"
       /\ \/ route.mappedRegion \in regionClass(route.origin, otherProvider(route.newProvider))
          \/ route.mappedRegion = defaultOf(route.newProvider)

\* the constraints of a property schema that a value violates
violated(paramSchema, value) ==
    {check \in {"type", "enum", "minimum", "maximum", "minLength", "maxLength"} :
        CASE check = "type" ->
                paramSchema.type # UNDEF /\ ~validateType(value, paramSchema.type)
          [] check = "enum" ->
                paramSchema.enum # None /\ value \notin paramSchema.enum[1]
          [] check = "minimum" ->
                /\ paramSchema.minimum # None /\ value.kind = "number"
                /\ value.n < paramSchema.minimum[1]
          [] check = "maximum" ->
                /\ paramSchema.maximum # None /\ value.kind = "number"
                /\ value.n > paramSchema.maximum[1]
          [] check = "minLength" ->
                /\ paramSchema.minLength # None /\ value.kind = "string"
                /\ Len(value.s) < paramSchema.minLength[1]
          [] check = "maxLength" ->
                /\ paramSchema.maxLength # None /\ value.kind = "string"
                /\ Len(value.s) > paramSchema.maxLength[1]}

\* the names of schema.required
requiredNames(schema) ==
    IF schema.required = None THEN {}
    ELSE {schema.required[1][i] : i \in 1..Len(schema.required[1])}

\* the violations of a parameters document
violations(schema, parameters) ==
    {error("required", n) : n \in {m \in requiredNames(schema) : parameters[m] = None}}
    \cup UNION {{error(check, n) : check \in violated(schema.properties[n][1],
                                                      parameters[n][1])} :
                n \in {m \in {"a", "b"} : /\ schema.properties[m] # None
                                          /\ parameters[m] # None}}

\* how often an error is in a list of errors
occurrences(errors, e) == Cardinality({i \in 1..Len(errors) : errors[i] = e})

\* C25: validateParameters reports every violation in one report: errors
\* holds one message for each required name that is absent and one for each
\* violated type, enum, minimum, maximum, minLength and maxLength constraint
\* of each declared property that is present; an absent optional property
\* yields no error; valid is true exactly when errors is empty.
C25_ReportHoldsEveryViolation ==
    validation.pc \in {"returned", "thrown"}
    => /\ validation.pc = "returned"
       /\ LET schema == validation.schema
              parameters == validation.parameters
              result == validation.result IN
          /\ \A e \in violations(schema, parameters) :
                 occurrences(result.errors, e) = 1
          /\ \A n \in {"a", "b"} :
                 parameters[n] = None /\ n \notin requiredNames(schema)
                 => \A i \in 1..Len(result.errors) : result.errors[i][2] # n
          /\ result.valid <=> result.errors = <<>>

\* a step of the validator leaves its two documents and the store as they are,
\* and the reports for the same documents are equal
PureStep ==
    /\ validation'.schema = validation.schema
    /\ validation'.parameters = validation.parameters
    /\ UNCHANGED <<templates, resources, deployments, jobs, deploymentJobs, queue>>
    /\ \A i, j \in 1..Len(validation'.returns) :
           validation'.returns[i] = validation'.returns[j]

C27_ValidatorTotal == validation.pc # "thrown"

\* the handler of queue q moves the deployment of a failover job into its
\* in-flight status
StartsFailover(q) ==
    /\ worker[q].pc = "status_inflight" /\ worker'[q].pc = "find"
    /\ Msg(q).isDeployment /\ Msg(q).isFailover

\* C28: a worker starts the failover processing of a deployment only when the
\* deployment is ACTIVE and has a failover region, whatever requests for the
\* deployment were accepted since the failover request.
C28_FailoverStartsFromActive ==
    [][\A q \in QueueNames :
          StartsFailover(q)
          => /\ deployments[Msg(q).entityId].status = "ACTIVE"
             /\ deployments[Msg(q).entityId].failoverRegion # NULL]_vars

\* the handlers of two queues are processing jobs of one entity
SameEntity(q1, q2) ==
    /\ worker[q1].pc # "idle" /\ worker[q2].pc # "idle"
    /\ Msg(q1).isDeployment = Msg(q2).isDeployment
    /\ Msg(q1).entityId = Msg(q2).entityId

\* C29: operations on one entity are serialized: no request for an entity is
\* accepted while a job of it is PENDING or PROCESSING, so the handlers of two
\* queues never process jobs of the same entity at the same time.
C29_OneJobPerEntity ==
    \A q1, q2 \in QueueNames : q1 # q2 => ~SameEntity(q1, q2)

\* the handler of queue q has got its directory from createConfigDir and has
\* calls of the IaC tool in it ahead
InWorkspace(q) ==
    /\ worker[q].pc \in {"init", "plan", "apply", "destroy", "outputs"}
    /\ Msg(q).isDeployment

\* the directory <TERRAFORM_DIR>/<deployment id>/<region> of that handler
workspaceOf(q) == <<Msg(q).entityId, worker[q].region>>

\* C30: the configuration workspace is never shared across concurrent jobs:
\* two jobs that are processed at the same time never work in the same
\* directory <TERRAFORM_DIR>/<deployment id>/<region>.
C30_WorkspaceNotShared ==
    \A q1, q2 \in QueueNames :
        q1 # q2 /\ InWorkspace(q1) /\ InWorkspace(q2)
        => workspaceOf(q1) # workspaceOf(q2)

\* the service method has got the outcome of its wait
WaitOver == wait.pc \in {"returned", "thrown"}

\* what waitForZoneOperation has done so far fits its outcome
WaitOutcome ==
    /\ wait.pc = "returned" => wait.operation = "DONE" /\ wait.remote = "DONE"
    /\ wait.error = "Operation failed" => wait.operation = "DONE_ERROR"
    /\ wait.error = "Operation timed out"
       => timedOut(wait.elapsed) /\ wait.operation = "RUNNING"
    /\ wait.pc \in {"poll", "sleep"} => wait.operation \in {NULL, "RUNNING"}
    /\ wait.pc = "sleep" => ~timedOut(wait.elapsed)
    /\ wait.late <= 1

\* C31: waitForZoneOperation always terminates and blocks until a terminal
\* outcome: it returns only after a poll saw the operation DONE without error,
\* raises 'Operation failed' when a poll sees DONE with an error, raises the
\* timeout error at the first poll made after the ceiling has elapsed, and
\* every service call that starts an operation returns only through it.
C31_WaitBlocksUntilTerminal == []WaitOutcome /\ <>WaitOver

\* the wait ended with the timeout error, raised by the one poll made after
\* the ceiling
C31_Witness ==
    /\ wait.pc = "thrown" /\ wait.error = "Operation timed out" /\ wait.late = 1

\* the job and the entity of the i-th saved message
JobOf(i) ==
    IF queue[i].isDeployment THEN deploymentJobs[queue[i].jobId] ELSE jobs[queue[i].jobId]
EntityOf(i) ==
    IF queue[i].isDeployment THEN deployments[queue[i].entityId]
    ELSE resources[queue[i].entityId]

Enqueued(i) == i <= Len(queue)
JobOver(i) == Enqueued(i) /\ JobOf(i).status \in {"COMPLETED", "FAILED"}
EntitySettled(i) == Enqueued(i) /\ EntityOf(i).status \in {"ACTIVE", "DELETED", "FAILED"}

\* C32: with workers that keep running, a store that stays available and
\* provider / IaC calls that return or throw, every enqueued job is picked up
\* and reaches COMPLETED or FAILED, and its entity reaches ACTIVE, DELETED or
\* FAILED by then.
C32_EveryJobEnds ==
    \A i \in 1..MaxJobs :
        /\ Enqueued(i) ~> JobOver(i)
        /\ Enqueued(i) /\ ~JobOver(i) ~> EntitySettled(i)

\* a job has been picked up and has ended, and its entity is settled
C32_Witness ==
    \E i \in 1..MaxJobs :
        /\ JobOver(i) /\ EntitySettled(i) /\ queue[i].state \in {"succeeded", "failed"}
\* C33: DELETED is absorbing: no step changes the status of a resource or of
\* a deployment that has status DELETED, whichever job or request takes it.
C33_DeletedAbsorbing ==
    [][/\ \A i \in 1..Len(resources) :
            resources[i].status = "DELETED" => resources'[i].status = "DELETED"
       /\ \A i \in 1..Len(deployments) :
            deployments[i].status = "DELETED" => deployments'[i].status = "DELETED"]_vars

\* C34: every resource record owned by a deployment with status DELETED has
\* status DELETED.
C34_DeletedOwnsOnlyDeleted ==
    \A d \in 1..Len(deployments) : \A i \in 1..Len(resources) :
        deployments[d].status = "DELETED" /\ resources[i].deploymentId = d
            => resources[i].status = "DELETED"

\* C35: the step in which updateDeployment rejects the new parameters as
\* invalid leaves every field of every stored deployment as it was.
C35_RejectedUpdateAtomic ==
    [][req.op = "updateDeployment" /\ req.pc # "err"
            /\ req'.pc = "err" /\ req'.error = "invalid"
        => deployments' = deployments]_vars

\* C36: when the DELETE job of a deployment is recorded as COMPLETED, no
\* region workspace of that deployment holds applied infrastructure: destroy
\* has run wherever an apply had succeeded.
C36_DeleteDestroysEveryRegion ==
    [][\A j \in 1..Len(deploymentJobs) :
          /\ deploymentJobs[j].type = "DELETE"
          /\ deploymentJobs[j].status # "COMPLETED"
          /\ deploymentJobs'[j].status = "COMPLETED"
          => \A w \in infra' : w[1] # deploymentJobs[j].deploymentId]_vars

\* the service function of request o has been called and has not returned
Executing(o) == legacy.ops[o].pc \in {"service", "catch_status", "catch_logs"}

\* C37: at most one of deploy, switchRegion and failover is executing for a
\* deployment: a request that arrives while another operation on the same
\* deployment is accepted and not finished is refused.
C37_OneOperationPerDeployment ==
    \A o1, o2 \in 1..Len(legacy.ops) :
        /\ o1 # o2
        /\ legacy.ops[o1].deploymentId = legacy.ops[o2].deploymentId
        => ~(Executing(o1) /\ Executing(o2))

\* request o runs a terraform command in this step
RunsCommand(o) ==
    /\ o <= Len(legacy.ops) /\ stage(o) \in Commands
    /\ legacy'.ops[o] # legacy.ops[o]

\* C38: every terraform command of an operation runs with the credential
\* that setupCredentials of that same operation installed in the environment
\* of its provider.
C38_CommandUsesOwnCredentials ==
    [][\A o \in 1..MaxRequests :
          RunsCommand(o) => legacy.env[legacy.ops[o].path] = legacy.ops[o].installed]_vars

\* request o takes the last step of its service function in this step
Finishes(o) ==
    /\ o <= Len(legacy.ops) /\ Executing(o)
    /\ legacy'.ops[o].pc \in {"completed", "failed"}

\* request o takes a step
Steps(o) == o <= Len(legacy.ops) /\ legacy'.ops[o] # legacy.ops[o]

\* C39: when deploy, switchRegion or failover finishes, the operation log
\* entry created for that request has the terminal status of the deployment
\* (COMPLETED with COMPLETED, FAILED with FAILED), and a step of a request
\* modifies no operation log entry of another request.
C39_LogFollowsDeployment ==
    [][\A o \in 1..MaxRequests :
          /\ Finishes(o) =>
                /\ legacy'.logs[legacy.ops[o].log].status \in {"COMPLETED", "FAILED"}
                /\ legacy'.logs[legacy.ops[o].log].status
                      = legacy'.rows[legacy.ops[o].deploymentId].status
          /\ Steps(o) =>
                \A l \in 1..Len(legacy.logs) :
                    legacy'.logs[l] # legacy.logs[l] => l = legacy.ops[o].log]_vars

\* request o is switchRegion and runs the terraform command in this step
SwitchRuns(o, command) ==
    /\ RunsCommand(o) /\ stage(o) = command
    /\ legacy.ops[o].operation = "SWITCH_REGION"

\* C40: switchRegion destroys with the variables of the old region: when its
\* destroy command runs the variables file of the module directory names the
\* region the deployment is in, and the variables file names the new region
\* when its apply runs.
C40_DestroyInOldRegion ==
    [][\A o \in 1..MaxRequests :
          LET op == legacy.ops[o]
              tfvars == legacy.tfvars[<<op.deploymentId, op.path>>] IN
          /\ SwitchRuns(o, "destroy") => tfvars = mapRegion(op.region, op.provider)
          /\ SwitchRuns(o, "apply") => tfvars = mapRegion(op.newRegion, op.provider)]_vars

====
